---- MODULE Spec2Model ----
(***************************************************************************)
(* A model of go-gpm: the auth manager (token cache, single-flight        *)
(* refresh) and the upload pipeline (batch driver, worker pool, per-file  *)
(* state machine, event stream).                                          *)
(***************************************************************************)
EXTENDS Integers, Sequences, FiniteSets, TLC

\* ------------------------------------------------------------------ bounds
NCallers == 2          \* concurrent callers of GetAuthToken
MaxTime == 2           \* the clock runs over 0..MaxTime

Callers == 1..NCallers
NoOne == 0

\* ------------------------------------------------------------ auth manager
VARIABLES
    cacheKind,      \* "memory": MemoryTokenCache; "config": ConfigTokenCache
    accountPresent, \* ConfigTokenCache: the account is in the config
    cacheToken,     \* TokenCache token
    cacheExpiry,    \* TokenCache expiry (epoch seconds)
    now,            \* time.Now().Unix()
    authMu,         \* Api.authMu: the caller holding it, or NoOne
    apc,            \* each GetAuthToken caller's position
    ares,           \* each caller's return value [token, err]
    exch            \* history: the token exchanges performed, in order

authVars == <<cacheKind, accountPresent, cacheToken, cacheExpiry, now, authMu, apc, ares, exch>>

Tokens == {"t1", "t2"}

RECURSIVE ParseDigits(_, _)
\* the digits of s as a number, acc being the value of the digits read so far; -1: not a number
ParseDigits(s, acc) ==
    LET DigitVal(ch) ==
            CASE ch = "0" -> 0 [] ch = "1" -> 1 [] ch = "2" -> 2 [] ch = "3" -> 3
              [] ch = "4" -> 4 [] ch = "5" -> 5 [] ch = "6" -> 6 [] ch = "7" -> 7
              [] ch = "8" -> 8 [] ch = "9" -> 9 [] OTHER -> -1
    IN
    IF s = <<>> THEN acc
    ELSE IF DigitVal(Head(s)) < 0 THEN -1
    ELSE ParseDigits(Tail(s), acc * 10 + DigitVal(Head(s)))

\* strconv.ParseInt(s, 10, 64): [ok, val]
ParseInt(s) ==
    IF s = <<>> THEN [ok |-> FALSE, val |-> 0]
    ELSE LET neg == Head(s) = "-"
             body == IF Head(s) \in {"-", "+"} THEN Tail(s) ELSE s
             v == IF body = <<>> THEN -1 ELSE ParseDigits(body, 0)
         IN IF v < 0 THEN [ok |-> FALSE, val |-> 0]
            ELSE [ok |-> TRUE, val |-> IF neg THEN 0 - v ELSE v]

\* The replies the token-exchange endpoint (or the transport) can give
AuthReplies ==
    \* Expiry values of the reply body, as decimal strings (sequences of characters)
    LET ExpiryStrings == {<<>>, <<"x">>, <<"0">>, <<"1">>, <<"3">>, <<"-", "1">>, <<"1", "0">>}
    IN
    {[net |-> "error", gzip |-> TRUE, status |-> 0, Auth |-> "", Expiry |-> <<>>]}
    \cup [net : {"ok"}, gzip : BOOLEAN, status : {200, 403}, Auth : Tokens \cup {""},
          Expiry : ExpiryStrings]

\* refreshAccessToken, given the reply of Client.Do: (authToken, expiry, err)
refreshAccessToken(reply) ==
    IF reply.net = "error" THEN [token |-> "", expiry |-> 0, err |-> "auth request failed"]
    ELSE IF ~(reply.status >= 200 /\ reply.status < 300)
        THEN [token |-> "", expiry |-> 0, err |-> "request failed with status"]
    ELSE IF ~reply.gzip
        THEN [token |-> "", expiry |-> 0, err |-> "failed to read response body"]
    ELSE IF reply.Auth = "" \/ reply.Expiry = <<>>
        THEN [token |-> "", expiry |-> 0, err |-> "auth response missing Auth or Expiry token"]
    ELSE IF ~ParseInt(reply.Expiry).ok
        THEN [token |-> "", expiry |-> 0, err |-> "failed to parse expiry"]
    ELSE [token |-> reply.Auth, expiry |-> ParseInt(reply.Expiry).val, err |-> ""]

\* TokenCache.Get: MemoryTokenCache returns its fields; ConfigTokenCache returns
\* ("", 0) when the account is not in the config
CacheGet ==
    IF cacheKind = "config" /\ ~accountPresent THEN [token |-> "", expiry |-> 0]
    ELSE [token |-> cacheToken, expiry |-> cacheExpiry]

\* TokenCache.Set takes effect: always for MemoryTokenCache; for ConfigTokenCache
\* only when UpdateAccountToken finds the account
CacheStores == cacheKind = "memory" \/ accountPresent

\* UpdateAccountToken returns an error (that ConfigTokenCache.Set drops): the
\* account is not in the config, or the config is updated in memory and
\* Save fails to write it
SetFails(saved) == cacheKind = "config" /\ (~accountPresent \/ ~saved)

InitAuth ==
    /\ cacheKind \in {"memory", "config"}
    /\ accountPresent \in BOOLEAN
    /\ (cacheKind = "memory" => accountPresent)
    /\ cacheToken \in Tokens \cup {""}
    /\ cacheExpiry \in {0, 1}
    /\ (cacheToken = "" => cacheExpiry = 0)
    /\ now = 0
    /\ authMu = NoOne
    /\ apc = [c \in Callers |-> "waiting"]
    /\ ares = [c \in Callers |-> [token |-> "", err |-> ""]]
    /\ exch = <<>>

\* a.authMu.Lock() with mutual exclusion removed
AuthLockNoMutex(c) ==
    /\ apc[c] = "waiting"
    /\ authMu' = c
    /\ apc' = [apc EXCEPT ![c] = "locked"]
    /\ UNCHANGED <<cacheKind, accountPresent, cacheToken, cacheExpiry, now, ares, exch>>

\* a.authMu.Lock()
AuthLock(c) ==
    /\ apc[c] = "waiting"
    /\ authMu = NoOne
    /\ authMu' = c
    /\ apc' = [apc EXCEPT ![c] = "locked"]
    /\ UNCHANGED <<cacheKind, accountPresent, cacheToken, cacheExpiry, now, ares, exch>>

\* tokenCache.Get and the validity test: return the cached token (releasing the
\* mutex by the deferred Unlock), or start the token exchange
AuthCheck(c) ==
    \* the reply an exchange in flight has not yet received
    LET NoReply == [net |-> "", gzip |-> FALSE, status |-> 0, Auth |-> "", Expiry |-> <<>>]
    IN
    \* the number of callers that have returned
    LET Returned == Cardinality({d \in Callers : apc[d] = "done"})
    IN
    \* GetAuthToken's test of the cached token
    LET TokenValid(token, expiry) == token # "" /\ expiry > now
    IN
    /\ apc[c] = "locked"
    /\ LET got == CacheGet IN
       IF TokenValid(got.token, got.expiry)
       THEN /\ ares' = [ares EXCEPT ![c] = [token |-> got.token, err |-> ""]]
            /\ apc' = [apc EXCEPT ![c] = "done"]
            /\ authMu' = IF authMu = c THEN NoOne ELSE authMu
            /\ exch' = exch
       ELSE /\ apc' = [apc EXCEPT ![c] = "refresh"]
            /\ exch' = Append(exch, [by |-> c, before |-> Returned, done |-> FALSE,
                                     token |-> "", expiry |-> 0, err |-> "", stored |-> FALSE,
                                     setErr |-> FALSE, reply |-> NoReply])
            /\ UNCHANGED <<ares, authMu>>
    /\ UNCHANGED <<cacheKind, accountPresent, cacheToken, cacheExpiry, now>>

\* the index in exch of the exchange caller c has in flight
ExchOf(c) == CHOOSE i \in 1..Len(exch) : exch[i].by = c

\* the reply of the token exchange arrives, with a.tokenCache.Set left out
AuthReplyNoSet(c, reply) ==
    /\ apc[c] = "refresh"
    /\ LET r == refreshAccessToken(reply)
           i == ExchOf(c)
       IN /\ IF r.err # ""
             THEN ares' = [ares EXCEPT ![c] = [token |-> "", err |-> "failed to refresh auth token"]]
             ELSE ares' = [ares EXCEPT ![c] = [token |-> r.token, err |-> ""]]
          /\ \E saved \in BOOLEAN :
               exch' = [exch EXCEPT ![i] = [@ EXCEPT !.done = TRUE, !.token = r.token,
                                              !.expiry = r.expiry, !.err = r.err,
                                              !.stored = (r.err = "" /\ CacheStores),
                                              !.setErr = (r.err = "" /\ SetFails(saved)),
                                              !.reply = reply]]
    /\ apc' = [apc EXCEPT ![c] = "done"]
    /\ authMu' = IF authMu = c THEN NoOne ELSE authMu
    /\ UNCHANGED <<cacheKind, accountPresent, cacheToken, cacheExpiry, now>>

\* the reply of the token exchange arrives, with the cache cleared when the
\* exchange failed
AuthReplyClearsCache(c, reply) ==
    /\ apc[c] = "refresh"
    /\ LET r == refreshAccessToken(reply)
           i == ExchOf(c)
       IN /\ IF r.err # ""
             THEN /\ ares' = [ares EXCEPT ![c] = [token |-> "", err |-> "failed to refresh auth token"]]
                  /\ cacheToken' = "" /\ cacheExpiry' = 0
             ELSE /\ ares' = [ares EXCEPT ![c] = [token |-> r.token, err |-> ""]]
                  /\ cacheToken' = IF CacheStores THEN r.token ELSE cacheToken
                  /\ cacheExpiry' = IF CacheStores THEN r.expiry ELSE cacheExpiry
          /\ \E saved \in BOOLEAN :
               exch' = [exch EXCEPT ![i] = [@ EXCEPT !.done = TRUE, !.token = r.token,
                                              !.expiry = r.expiry, !.err = r.err,
                                              !.stored = (r.err = "" /\ CacheStores),
                                              !.setErr = (r.err = "" /\ SetFails(saved)),
                                              !.reply = reply]]
    /\ apc' = [apc EXCEPT ![c] = "done"]
    /\ authMu' = IF authMu = c THEN NoOne ELSE authMu
    /\ UNCHANGED <<cacheKind, accountPresent, now>>

\* the reply of the token exchange arrives, with an error of the cache's set
\* returned to the caller
AuthReplySetFatal(c, reply) ==
    /\ apc[c] = "refresh"
    /\ LET r == refreshAccessToken(reply)
           i == ExchOf(c)
       IN \E saved \in BOOLEAN :
            /\ IF r.err # ""
               THEN /\ ares' = [ares EXCEPT ![c] = [token |-> "", err |-> "failed to refresh auth token"]]
                    /\ UNCHANGED <<cacheToken, cacheExpiry>>
               ELSE /\ ares' = [ares EXCEPT ![c] =
                                  IF SetFails(saved) THEN [token |-> "", err |-> "failed to store auth token"]
                                  ELSE [token |-> r.token, err |-> ""]]
                    /\ cacheToken' = IF CacheStores THEN r.token ELSE cacheToken
                    /\ cacheExpiry' = IF CacheStores THEN r.expiry ELSE cacheExpiry
            /\ exch' = [exch EXCEPT ![i] = [@ EXCEPT !.done = TRUE, !.token = r.token,
                                              !.expiry = r.expiry, !.err = r.err,
                                              !.stored = (r.err = "" /\ CacheStores),
                                              !.setErr = (r.err = "" /\ SetFails(saved)),
                                              !.reply = reply]]
    /\ apc' = [apc EXCEPT ![c] = "done"]
    /\ authMu' = IF authMu = c THEN NoOne ELSE authMu
    /\ UNCHANGED <<cacheKind, accountPresent, now>>

\* the reply of the token exchange arrives: refreshAccessToken returns, the token
\* is written through to the cache, GetAuthToken returns and unlocks
AuthReply(c, reply) ==
    /\ apc[c] = "refresh"
    /\ LET r == refreshAccessToken(reply)
           i == ExchOf(c)
       IN /\ IF r.err # ""
             THEN /\ ares' = [ares EXCEPT ![c] = [token |-> "", err |-> "failed to refresh auth token"]]
                  /\ UNCHANGED <<cacheToken, cacheExpiry>>
             ELSE /\ ares' = [ares EXCEPT ![c] = [token |-> r.token, err |-> ""]]
                  /\ cacheToken' = IF CacheStores THEN r.token ELSE cacheToken
                  /\ cacheExpiry' = IF CacheStores THEN r.expiry ELSE cacheExpiry
          /\ \E saved \in BOOLEAN :
               exch' = [exch EXCEPT ![i] = [@ EXCEPT !.done = TRUE, !.token = r.token,
                                              !.expiry = r.expiry, !.err = r.err,
                                              !.stored = (r.err = "" /\ CacheStores),
                                              !.setErr = (r.err = "" /\ SetFails(saved)),
                                              !.reply = reply]]
    /\ apc' = [apc EXCEPT ![c] = "done"]
    /\ authMu' = IF authMu = c THEN NoOne ELSE authMu
    /\ UNCHANGED <<cacheKind, accountPresent, now>>

\* the clock advances
Tick ==
    /\ now < MaxTime
    /\ now' = now + 1
    /\ UNCHANGED <<cacheKind, accountPresent, cacheToken, cacheExpiry, authMu, apc, ares, exch>>

\* --------------------------------------------------------- upload pipeline
NBatches == 2          \* Upload calls on one client
MaxFiles == 2          \* files in a batch after filtering

Batches == 1..NBatches
NoBatch == 0
FileIds == 1..MaxFiles
\* the worker IDs a driver might hand out
WorkerIds == 0..MaxFiles

VARIABLES
    uploadMu,   \* GooglePhotosAPI.uploadMu: the batch holding it, or NoBatch
    drv,        \* each Upload goroutine: position, opts and locals of the driver
    wk,         \* each worker goroutine: position, current file, pending send
    workChan,   \* the buffered work channel: queue and closed flag
    events,     \* the event channel: times closed, events delivered, panics
    ctxDone,    \* the caller's context is cancelled
    consuming,  \* the caller is still receiving from the event channel
    rpcs,       \* history: the RPCs issued for each file, in order
    onDisk,     \* the source files still present on the host
    atCancel    \* history: when ctx was cancelled, was the batch in its middle (total
                \* sent, workers not yet awaited), and which files had a terminal event

upVars == <<uploadMu, drv, wk, workChan, events, ctxDone, consuming, rpcs, onDisk, atCancel>>

\* the identifier resolver, the dedup-key codec and the library parser: each
\* is a function of its input (and of the host and the server it asks)
VARIABLES
    rin,    \* resolver: the input string and the file (if any) at that path
    rout,   \* resolver: the last call made on rin and what it returned
    cin,    \* codec: a digest to encode or a string to decode
    cout,   \* codec: the last conversion and its result
    pin,    \* parser: the bytes of a library response
    pout    \* parser: what parseLibraryResponse returned for pin

libVars == <<rin, rout, cin, cout, pin, pout>>

\* the command-line client's ConfigManager, and the Api fields CommitUpload reads
VARIABLES
    accountsKind,   \* Config.Accounts is a slice ("slice") or a map keyed by email ("map")
    config,         \* ConfigManager.config: [Selected, Accounts], Accounts the emails in order
    disk,           \* the configuration in the config file, as last written by Save
    cfgRet,         \* the last ConfigManager call: its name, argument and return values
    api,            \* Api: [Model, Quality, UseQuota]
    commitReq       \* the last CommitUpload call: its arguments and the request it built

cliVars == <<accountsKind, config, disk, cfgRet, api, commitReq>>
vars == <<authVars, upVars, libVars, cliVars>>

Max(a, b) == IF a >= b THEN a ELSE b
StatusHashing == "hashing"
StatusChecking == "checking"
StatusUploading == "uploading"
\* the finalizing step announced with the status of the step before it
StatusFinalizingAsUploading == "uploading"
StatusFinalizing == "finalizing"
StatusCompleted == "completed"
StatusSkipped == "skipped"
StatusFailed == "failed"
NoStatus == ""
TerminalStatuses == {StatusCompleted, StatusSkipped, StatusFailed}

\* errors are chains of messages, outermost first; nil is the empty chain
Nil == <<>>
\* ctx.Err() of a cancelled context
Canceled == <<"context canceled">>
RpcError == <<"request failed">>
IoError == <<"i/o error">>
\* fmt.Errorf("<prefix>: %w", cause)
Errorf(prefix, cause) == <<prefix>> \o cause

\* UploadEvent
UploadEvent(path, status, mediaKey, dedupKey, err, workerID, total) ==
    [Path |-> path, Status |-> status, MediaKey |-> mediaKey, DedupKey |-> dedupKey,
     Error |-> err, WorkerID |-> workerID, Total |-> total]

\* the empty dedup key
NoKey == <<>>
NoEvent == UploadEvent(0, NoStatus, "", NoKey, Nil, 0, 0)

\* UploadOptions (the fields the pipeline reads)
UploadOptions ==
    \* opts.Workers as requested by the caller: negative, zero, below, at and above the file count
    LET WorkerOpts == (0 - 1)..(MaxFiles + 1)
    IN
    [Workers : WorkerOpts, ForceUpload : BOOLEAN, DeleteFromHost : BOOLEAN,
     Caption : {"", "cap"}, ShouldFavourite : BOOLEAN, ShouldArchive : BOOLEAN]

\* the SHA-1 digest of a file's content
Sha1Of(b, f) == <<"sha1", b, f>>
\* core.SHA1ToDedupeKey
SHA1ToDedupeKey(h) == <<"dedup", h[2], h[3]>>

\* workers := max(1, opts.Workers); workers = min(workers, len(files)), without the min
WorkerCountNoMin(w, f) == Max(1, w)

\* workers := max(1, opts.Workers); workers = min(workers, len(files))
WorkerCount(w, f) ==
    LET Min(a, b) == IF a <= b THEN a ELSE b
    IN
                     Min(Max(1, w), f)

\* the error of an RPC issued under the batch's context: a cancelled context
\* fails the request
RpcOutcomes(b) == IF ctxDone[b] THEN {Canceled} ELSE {Nil, RpcError}

\* CalculateSHA1(ctx, path): its error; the cancellation is noticed between chunks
HashOutcomes(b) == IF ctxDone[b] THEN {Nil, IoError, Canceled} ELSE {Nil, IoError}

\* FindMediaKeyByHash: (mediaKey, err)
FindOutcomes(b) ==
    IF ctxDone[b] THEN {[mediaKey |-> "", err |-> Canceled]}
    ELSE {[mediaKey |-> "mkLib", err |-> Nil], [mediaKey |-> "", err |-> Nil],
          [mediaKey |-> "", err |-> RpcError]}

\* CommitUpload: (mediaKey, err); a reply without media key is an error
CommitOutcomes(b) ==
    IF ctxDone[b] THEN {[mediaKey |-> "", err |-> Canceled]}
    ELSE {[mediaKey |-> "mkNew", err |-> Nil], [mediaKey |-> "", err |-> RpcError],
          [mediaKey |-> "", err |-> <<"upload rejected by API: no media key returned">>]}

IdleDriver ==
    LET NoOpts ==
            [Workers |-> 0, ForceUpload |-> FALSE, DeleteFromHost |-> FALSE,
             Caption |-> "", ShouldFavourite |-> FALSE, ShouldArchive |-> FALSE]
    IN
    [pc |-> "idle", opts |-> NoOpts, files |-> 0, workers |-> 0, i |-> 0, next |-> 1,
     first |-> TRUE, scan |-> "none"]

IdleWorker ==
    [pc |-> "none", file |-> 0, ev |-> NoEvent, next |-> "", mediaKey |-> "", op |-> 0]

InitUpload ==
    /\ uploadMu = NoBatch
    /\ drv = [b \in Batches |-> IdleDriver]
    /\ wk = [b \in Batches |-> [w \in WorkerIds |-> IdleWorker]]
    /\ workChan = [b \in Batches |-> [q |-> <<>>, closed |-> FALSE]]
    /\ events = [b \in Batches |->
                    [closed |-> 0, sent |-> [k \in 0..MaxFiles |-> <<>>], pos |-> <<>>,
                     panics |-> 0]]
    /\ ctxDone = [b \in Batches |-> FALSE]
    /\ consuming = [b \in Batches |-> TRUE]
    /\ rpcs = [b \in Batches |-> [f \in FileIds |-> <<>>]]
    /\ onDisk = [b \in Batches |-> [f \in FileIds |-> TRUE]]
    /\ atCancel = [b \in Batches |-> [mid |-> FALSE, terminal |-> {}]]

\* the client as NewApi builds it, with no GetAuthToken caller
InitAuthQuiet ==
    /\ cacheKind = "memory" /\ accountPresent = TRUE
    /\ cacheToken = "" /\ cacheExpiry = 0 /\ now = 0 /\ authMu = NoOne
    /\ apc = [c \in Callers |-> "done"]
    /\ ares = [c \in Callers |-> [token |-> "", err |-> ""]]
    /\ exch = <<>>

\* the number of events delivered on the batch's channel so far

RECURSIVE SumLen(_, _)
SumLen(sent, k) == IF k < 0 THEN 0 ELSE Len(sent[k]) + SumLen(sent, k - 1)
NSent(b) == SumLen(events[b].sent, MaxFiles)

\* the events channel after `ev` went through it (a send on a closed channel panics)
Delivered(b, ev) ==
    IF events[b].closed > 0
    THEN [events[b] EXCEPT !.panics = @ + 1]
    ELSE [events[b] EXCEPT !.sent[ev.Path] = Append(@, ev),
                           !.pos = IF ev.Path = 0 THEN Append(@, NSent(b)) ELSE @]

\* a send on the unbuffered channel completes when the consumer receives (or
\* panics at once when the channel is closed)
CanSendBuffered(b) == TRUE

CanSend(b) == consuming[b] \/ events[b].closed > 0

\* the caller of Upload abandons the returned channel: from now on nothing
\* receives from it (the channel exists as soon as Upload has been called)
StopReceiving(b) ==
    /\ drv[b].pc # "idle"
    /\ consuming[b]
    /\ events[b].closed = 0
    /\ consuming' = [consuming EXCEPT ![b] = FALSE]
    /\ UNCHANGED <<uploadMu, drv, wk, workChan, events, ctxDone, rpcs, onDisk, atCancel>>

\* ------------------------------------------------------------ batch driver
\* GetGooglePhotosSupportedFiles: the number of files left by scan and filter, or an error
ScanError == <<"error accessing path">>
ScanResults ==
    {[files |-> n, err |-> Nil] : n \in 0..MaxFiles} \cup {[files |-> 0, err |-> ScanError]}

\* the deferred calls of the Upload goroutine, in the order they are registered
\* (they run last-registered first), with the two registrations swapped
DeferredSwapped == <<"close", "unlock">>

\* the deferred calls of the Upload goroutine, in the order they are registered
\* (they run last-registered first)
Deferred == <<"unlock", "close">>

SetDrv(b, d) == drv' = [drv EXCEPT ![b] = d]
SetWk(b, w, r) == wk' = [wk EXCEPT ![b][w] = r]

\* g.Upload(ctx, path, opts): makes the channel and starts the goroutine
UploadCall(b, o) ==
    /\ drv[b].pc = "idle"
    /\ SetDrv(b, [drv[b] EXCEPT !.pc = "lock", !.opts = o])
    /\ UNCHANGED <<uploadMu, wk, workChan, events, ctxDone, consuming, rpcs, onDisk, atCancel>>

\* g.uploadMu.Lock()
DLock(b) ==
    /\ drv[b].pc = "lock"
    /\ uploadMu = NoBatch
    /\ uploadMu' = b
    /\ SetDrv(b, [drv[b] EXCEPT !.pc = "scan"])
    /\ UNCHANGED <<wk, workChan, events, ctxDone, consuming, rpcs, onDisk, atCancel>>

\* the file scan with an empty file list reported like a scan error
DScanEmptyFails(b, res) ==
    /\ drv[b].pc = "scan"
    /\ IF res.err # Nil THEN SetDrv(b, [drv[b] EXCEPT !.pc = "sendfail", !.scan = "error"])
       ELSE IF res.files = 0 THEN SetDrv(b, [drv[b] EXCEPT !.pc = "sendfail", !.scan = "empty"])
       ELSE SetDrv(b, [drv[b] EXCEPT !.pc = "spawn", !.files = res.files, !.scan = "files",
                                     !.workers = WorkerCount(drv[b].opts.Workers, res.files)])
    /\ UNCHANGED <<uploadMu, wk, workChan, events, ctxDone, consuming, rpcs, onDisk, atCancel>>

\* the file scan, the empty-list return, the worker count and make(workChan);
\* scan records how the scan ended
DScan(b, res) ==
    /\ drv[b].pc = "scan"
    /\ IF res.err # Nil THEN SetDrv(b, [drv[b] EXCEPT !.pc = "sendfail", !.scan = "error"])
       ELSE IF res.files = 0 THEN SetDrv(b, [drv[b] EXCEPT !.pc = "defer2", !.scan = "empty"])
       ELSE SetDrv(b, [drv[b] EXCEPT !.pc = "spawn", !.files = res.files, !.scan = "files",
                                     !.workers = WorkerCount(drv[b].opts.Workers, res.files)])
    /\ UNCHANGED <<uploadMu, wk, workChan, events, ctxDone, consuming, rpcs, onDisk, atCancel>>

\* events <- UploadEvent{Status: StatusFailed, Error: err}; return
DSendFail(b) ==
    /\ drv[b].pc = "sendfail"
    /\ CanSend(b)
    /\ events' = [events EXCEPT ![b] =
                    Delivered(b, UploadEvent(0, StatusFailed, "", NoKey, ScanError, 0, 0))]
    /\ SetDrv(b, [drv[b] EXCEPT !.pc = "defer2"])
    /\ UNCHANGED <<uploadMu, wk, workChan, ctxDone, consuming, rpcs, onDisk, atCancel>>

\* one iteration of the loop that starts the workers
DSpawn(b) ==
    /\ drv[b].pc = "spawn"
    /\ IF drv[b].i < drv[b].workers
       THEN /\ SetWk(b, drv[b].i, [IdleWorker EXCEPT !.pc = "range"])
            /\ SetDrv(b, [drv[b] EXCEPT !.i = @ + 1])
       ELSE /\ SetDrv(b, [drv[b] EXCEPT !.pc = "loop"])
            /\ wk' = wk
    /\ UNCHANGED <<uploadMu, workChan, events, ctxDone, consuming, rpcs, onDisk, atCancel>>

\* the cancelled branch of the send loop with wg.Wait() left out
DCancelledNoWait(b) ==
    /\ workChan' = [workChan EXCEPT ![b].closed = TRUE]
    /\ SetDrv(b, [drv[b] EXCEPT !.pc = "defer2"])

\* the cancelled branch of the send loop: close(workChan); wg.Wait(); return
DCancelled(b) ==
    /\ workChan' = [workChan EXCEPT ![b].closed = TRUE]
    /\ SetDrv(b, [drv[b] EXCEPT !.pc = "wait"])

\* one iteration of the send loop: the ctx check and, after the first file, the
\* push of the next file; past the last file, close(workChan)
DLoop(b) ==
    /\ drv[b].pc = "loop"
    /\ IF drv[b].next > drv[b].files
       THEN /\ workChan' = [workChan EXCEPT ![b].closed = TRUE]
            /\ SetDrv(b, [drv[b] EXCEPT !.pc = "wait"])
       ELSE IF ctxDone[b] THEN DCancelled(b)
       ELSE IF drv[b].first
       THEN /\ SetDrv(b, [drv[b] EXCEPT !.pc = "sendtotal"])
            /\ workChan' = workChan
       ELSE /\ workChan' = [workChan EXCEPT ![b].q = Append(@, drv[b].next)]
            /\ SetDrv(b, [drv[b] EXCEPT !.next = @ + 1])
    /\ UNCHANGED <<uploadMu, wk, events, ctxDone, consuming, rpcs, onDisk, atCancel>>

\* the send of the total event, with `first = false` left out
DSendTotalEvery(b) ==
    /\ drv[b].pc = "sendtotal"
    /\ CanSend(b)
    /\ events' = [events EXCEPT ![b] =
                    Delivered(b, UploadEvent(0, NoStatus, "", NoKey, Nil, 0, drv[b].files))]
    /\ workChan' = [workChan EXCEPT ![b].q = Append(@, drv[b].next)]
    /\ SetDrv(b, [drv[b] EXCEPT !.pc = "loop", !.next = @ + 1])
    /\ UNCHANGED <<uploadMu, wk, ctxDone, consuming, rpcs, onDisk, atCancel>>

\* events <- UploadEvent{Total: len(files)}; first = false; workChan <- path
DSendTotal(b) ==
    /\ drv[b].pc = "sendtotal"
    /\ CanSend(b)
    /\ events' = [events EXCEPT ![b] =
                    Delivered(b, UploadEvent(0, NoStatus, "", NoKey, Nil, 0, drv[b].files))]
    /\ workChan' = [workChan EXCEPT ![b].q = Append(@, drv[b].next)]
    /\ SetDrv(b, [drv[b] EXCEPT !.pc = "loop", !.first = FALSE, !.next = @ + 1])
    /\ UNCHANGED <<uploadMu, wk, ctxDone, consuming, rpcs, onDisk, atCancel>>

\* wg.Wait() returns
DWait(b) ==
    \* the workers that have been started and have not returned (the WaitGroup's count)
    LET Running == {w \in WorkerIds : wk[b][w].pc \notin {"none", "exited"}}
    IN
    /\ drv[b].pc = "wait"
    /\ Running = {}
    /\ SetDrv(b, [drv[b] EXCEPT !.pc = "defer2"])
    /\ UNCHANGED <<uploadMu, wk, workChan, events, ctxDone, consuming, rpcs, onDisk, atCancel>>

\* the goroutine returns: its deferred calls run, the last registered first
RunDeferred(b) ==
    /\ drv[b].pc \in {"defer2", "defer1"}
    /\ LET call == IF drv[b].pc = "defer2" THEN Deferred[2] ELSE Deferred[1]
       IN IF call = "close"
          THEN /\ events' = [events EXCEPT ![b].closed = @ + 1]
               /\ uploadMu' = uploadMu
          ELSE /\ uploadMu' = IF uploadMu = b THEN NoBatch ELSE uploadMu
               /\ events' = events
    /\ SetDrv(b, [drv[b] EXCEPT !.pc = IF drv[b].pc = "defer2" THEN "defer1" ELSE "done"])
    /\ UNCHANGED <<wk, workChan, ctxDone, consuming, rpcs, onDisk, atCancel>>

\* the caller cancels ctx
Cancel(b) ==
    \* the files of the batch whose last event is terminal
    LET TerminalFiles ==
            {f \in FileIds : /\ events[b].sent[f] # <<>>
                             /\ events[b].sent[f][Len(events[b].sent[f])].Status \in TerminalStatuses}
    IN
    /\ drv[b].pc \notin {"idle", "done"}
    /\ ~ctxDone[b]
    /\ ctxDone' = [ctxDone EXCEPT ![b] = TRUE]
    /\ atCancel' = [atCancel EXCEPT ![b] =
                        [mid |-> NSent(b) > 0 /\ drv[b].pc \in {"loop", "wait"},
                         terminal |-> TerminalFiles]]
    /\ UNCHANGED <<uploadMu, drv, wk, workChan, events, consuming, rpcs, onDisk>>

\* ------------------------------------------------------- worker, uploadFile
\* the worker record blocked in `events <- ev`, continuing at `next` afterwards
Sending(r, ev, next) == [r EXCEPT !.pc = "send", !.ev = ev, !.next = next]

\* uploadFile's send closure: the event it builds for the worker's current file
FileEvent(b, w, status, mediaKey, dedupKey, err) ==
    UploadEvent(wk[b][w].file, status, mediaKey, dedupKey, err, w, 0)

DedupKeyOf(b, w) == SHA1ToDedupeKey(Sha1Of(b, wk[b][w].file))

LogRpc(b, w, entries) == rpcs' = [rpcs EXCEPT ![b][wk[b][w].file] = @ \o entries]
Rpc(op, err, mediaKey) == [op |-> op, err |-> err, mediaKey |-> mediaKey]

RemoveAlways(b, w) == onDisk' = [onDisk EXCEPT ![b][wk[b][w].file] = FALSE]

\* os.Remove(filePath) when opts.DeleteFromHost
RemoveIfAsked(b, w) ==
    onDisk' = IF drv[b].opts.DeleteFromHost
              THEN [onDisk EXCEPT ![b][wk[b][w].file] = FALSE] ELSE onDisk

\* top of the worker loop: receive the next path from workChan (or see it closed
\* and drained), then return if ctx is done, else enter uploadFile
WorkerRangePeek(b, w) ==
    /\ wk[b][w].pc = "range"
    /\ IF workChan[b].q # <<>>
       THEN /\ workChan' = workChan
            /\ IF ctxDone[b]
               THEN SetWk(b, w, [wk[b][w] EXCEPT !.pc = "exited"])
               ELSE SetWk(b, w, Sending([wk[b][w] EXCEPT !.file = Head(workChan[b].q)],
                                        UploadEvent(Head(workChan[b].q), StatusHashing, "",
                                                    NoKey, Nil, w, 0),
                                        "hash"))
       ELSE /\ workChan[b].closed
            /\ SetWk(b, w, [wk[b][w] EXCEPT !.pc = "exited"])
            /\ workChan' = workChan
    /\ UNCHANGED <<uploadMu, drv, events, ctxDone, consuming, rpcs, onDisk, atCancel>>

WorkerRange(b, w) ==
    /\ wk[b][w].pc = "range"
    /\ IF workChan[b].q # <<>>
       THEN /\ workChan' = [workChan EXCEPT ![b].q = Tail(@)]
            /\ IF ctxDone[b]
               THEN SetWk(b, w, [wk[b][w] EXCEPT !.pc = "exited"])
               ELSE SetWk(b, w, Sending([wk[b][w] EXCEPT !.file = Head(workChan[b].q)],
                                        UploadEvent(Head(workChan[b].q), StatusHashing, "",
                                                    NoKey, Nil, w, 0),
                                        "hash"))
       ELSE /\ workChan[b].closed
            /\ SetWk(b, w, [wk[b][w] EXCEPT !.pc = "exited"])
            /\ workChan' = workChan
    /\ UNCHANGED <<uploadMu, drv, events, ctxDone, consuming, rpcs, onDisk, atCancel>>

\* events <- UploadEvent{...}: the rendezvous with the consumer
WorkerSend(b, w) ==
    /\ wk[b][w].pc = "send"
    /\ CanSend(b)
    /\ events' = [events EXCEPT ![b] = Delivered(b, wk[b][w].ev)]
    /\ SetWk(b, w, [wk[b][w] EXCEPT !.pc = IF events[b].closed > 0 THEN "panic"
                                           ELSE wk[b][w].next,
                                    !.ev = NoEvent, !.next = ""])
    /\ UNCHANGED <<uploadMu, drv, workChan, ctxDone, consuming, rpcs, onDisk, atCancel>>

\* os.Stat and the send of uploading, with the worker returning after the failed
\* event of a stat error
AfterCheckAbort(b, w, statOk) ==
    IF ~statOk
    THEN Sending(wk[b][w],
                 FileEvent(b, w, StatusFailed, "", DedupKeyOf(b, w), Errorf("stat error", IoError)),
                 "exited")
    ELSE Sending(wk[b][w], FileEvent(b, w, StatusUploading, "", DedupKeyOf(b, w), Nil), "token")

\* os.Stat and the send of uploading, with the failed event of a stat error left out
AfterCheckSilent(b, w, statOk) ==
    IF ~statOk
    THEN [wk[b][w] EXCEPT !.pc = "range"]
    ELSE Sending(wk[b][w], FileEvent(b, w, StatusUploading, "", DedupKeyOf(b, w), Nil), "token")

\* os.Stat, then the send of uploading (or of failed on a stat error)
AfterCheck(b, w, statOk) ==
    IF ~statOk
    THEN Sending(wk[b][w],
                 FileEvent(b, w, StatusFailed, "", DedupKeyOf(b, w), Errorf("stat error", IoError)),
                 "range")
    ELSE Sending(wk[b][w], FileEvent(b, w, StatusUploading, "", DedupKeyOf(b, w), Nil), "token")

\* CalculateSHA1 returns; with ForceUpload the existence check is skipped
UFHash(b, w) ==
    /\ wk[b][w].pc = "hash"
    /\ \E err \in HashOutcomes(b), statOk \in BOOLEAN :
         IF err # Nil
         THEN SetWk(b, w, Sending(wk[b][w],
                                  FileEvent(b, w, StatusFailed, "", NoKey, Errorf("hash error", err)),
                                  "range"))
         ELSE IF ~drv[b].opts.ForceUpload
         THEN SetWk(b, w, Sending(wk[b][w],
                                  FileEvent(b, w, StatusChecking, "", DedupKeyOf(b, w), Nil),
                                  "find"))
         ELSE SetWk(b, w, AfterCheck(b, w, statOk))
    /\ UNCHANGED <<uploadMu, drv, workChan, events, ctxDone, consuming, rpcs, onDisk, atCancel>>

\* the test of the lookup's reply, inverted
FoundInverted(out) == out.mediaKey = ""

\* the test of the lookup's reply: mediaKey != "" (the error is dropped)
Found(out) == out.mediaKey # ""

\* FindMediaKeyByHash returns: skip the file when it is in the library
UFFindChecksError(b, w) ==
    /\ wk[b][w].pc = "find"
    /\ \E out \in FindOutcomes(b), statOk \in BOOLEAN :
         /\ LogRpc(b, w, <<Rpc("find", out.err, out.mediaKey)>>)
         /\ IF Found(out)
            THEN /\ RemoveIfAsked(b, w)
                 /\ SetWk(b, w, Sending(wk[b][w],
                                        FileEvent(b, w, StatusSkipped, out.mediaKey,
                                                  DedupKeyOf(b, w), Nil),
                                        "range"))
            ELSE /\ onDisk' = onDisk
                 /\ SetWk(b, w, IF out.err # Nil
                                THEN Sending(wk[b][w],
                                             FileEvent(b, w, StatusFailed, "", DedupKeyOf(b, w),
                                                       Errorf("find error", out.err)),
                                             "range")
                                ELSE AfterCheck(b, w, statOk))
    /\ UNCHANGED <<uploadMu, drv, workChan, events, ctxDone, consuming, atCancel>>

UFFind(b, w) ==
    /\ wk[b][w].pc = "find"
    /\ \E out \in FindOutcomes(b), statOk \in BOOLEAN :
         /\ LogRpc(b, w, <<Rpc("find", out.err, out.mediaKey)>>)
         /\ IF Found(out)
            THEN /\ RemoveIfAsked(b, w)
                 /\ SetWk(b, w, Sending(wk[b][w],
                                        FileEvent(b, w, StatusSkipped, out.mediaKey,
                                                  DedupKeyOf(b, w), Nil),
                                        "range"))
            ELSE /\ onDisk' = onDisk
                 /\ SetWk(b, w, AfterCheck(b, w, statOk))
    /\ UNCHANGED <<uploadMu, drv, workChan, events, ctxDone, consuming, atCancel>>

\* GetUploadToken returns
UFToken(b, w) ==
    /\ wk[b][w].pc = "token"
    /\ \E err \in RpcOutcomes(b) :
         /\ LogRpc(b, w, <<Rpc("upload_reserve", err, "")>>)
         /\ IF err # Nil
            THEN SetWk(b, w, Sending(wk[b][w],
                                     FileEvent(b, w, StatusFailed, "", DedupKeyOf(b, w),
                                               Errorf("upload token error", err)),
                                     "range"))
            ELSE SetWk(b, w, [wk[b][w] EXCEPT !.pc = "put"])
    /\ UNCHANGED <<uploadMu, drv, workChan, events, ctxDone, consuming, onDisk, atCancel>>

\* api.UploadFile returns: os.Open may fail before any request is made
UFPut(b, w) ==
    /\ wk[b][w].pc = "put"
    /\ \E opened \in BOOLEAN, err \in RpcOutcomes(b) :
         /\ IF opened THEN LogRpc(b, w, <<Rpc("upload_stream", err, "")>>) ELSE rpcs' = rpcs
         /\ IF ~opened \/ err # Nil
            THEN SetWk(b, w, Sending(wk[b][w],
                                     FileEvent(b, w, StatusFailed, "", DedupKeyOf(b, w),
                                               Errorf("upload error",
                                                      IF opened THEN err ELSE IoError)),
                                     "range"))
            ELSE SetWk(b, w, Sending(wk[b][w],
                                     FileEvent(b, w, StatusFinalizing, "", DedupKeyOf(b, w), Nil),
                                     "commit"))
    /\ UNCHANGED <<uploadMu, drv, workChan, events, ctxDone, consuming, onDisk, atCancel>>

\* api.CommitUpload returns
UFCommit(b, w) ==
    /\ wk[b][w].pc = "commit"
    /\ \E out \in CommitOutcomes(b) :
         /\ LogRpc(b, w, <<Rpc("upload_commit", out.err, out.mediaKey)>>)
         /\ IF out.err # Nil
            THEN SetWk(b, w, Sending(wk[b][w],
                                     FileEvent(b, w, StatusFailed, "", DedupKeyOf(b, w),
                                               Errorf("commit error", out.err)),
                                     "range"))
            ELSE IF out.mediaKey = ""
            THEN SetWk(b, w, Sending(wk[b][w],
                                     FileEvent(b, w, StatusFailed, "", DedupKeyOf(b, w),
                                               <<"no media key returned">>),
                                     "range"))
            ELSE SetWk(b, w, [wk[b][w] EXCEPT !.pc = "postops", !.mediaKey = out.mediaKey,
                                              !.op = 1])
    /\ UNCHANGED <<uploadMu, drv, workChan, events, ctxDone, consuming, onDisk, atCancel>>

\* the post-upload operations in the order uploadFile runs them, with the
\* removal of the source file first
PostOpsDeleteFirst == <<"remove", "set_caption", "set_favourite", "set_archived">>

\* the post-upload operations in the order uploadFile runs them
PostOps == <<"set_caption", "set_favourite", "set_archived", "remove">>

\* the next requested post-upload operation returns (an error is only logged);
\* after the last one, the send of completed
UFPostOps(b, w) ==
    \* the worker record after the last post-upload operation: blocked in the send
    \* of completed
    LET Completing ==
            Sending([wk[b][w] EXCEPT !.mediaKey = "", !.op = 0],
                    FileEvent(b, w, StatusCompleted, wk[b][w].mediaKey, DedupKeyOf(b, w), Nil),
                    "range")
    IN
    \* the first requested post-upload operation at or after position k, or
    \* Len(PostOps) + 1 when there is none
    LET NextOp(o, k) ==
            \* the condition under which uploadFile runs a post-upload operation
            LET Requested(op) ==
                    CASE op = "set_caption" -> o.Caption # ""
                      [] op = "set_favourite" -> o.ShouldFavourite
                      [] op = "set_archived" -> o.ShouldArchive
                      [] op = "remove" -> o.DeleteFromHost
            IN
            LET rest == {j \in k..Len(PostOps) : Requested(PostOps[j])}
            IN IF rest = {} THEN Len(PostOps) + 1 ELSE CHOOSE j \in rest : \A l \in rest : j <= l
    IN
    /\ wk[b][w].pc = "postops"
    /\ LET k == NextOp(drv[b].opts, wk[b][w].op)
           after == IF NextOp(drv[b].opts, k + 1) > Len(PostOps)
                    THEN Completing ELSE [wk[b][w] EXCEPT !.op = k + 1]
       IN IF k > Len(PostOps)
          THEN /\ SetWk(b, w, Completing)
               /\ UNCHANGED <<rpcs, onDisk>>
          ELSE IF PostOps[k] = "remove"
          THEN /\ RemoveIfAsked(b, w)
               /\ SetWk(b, w, after)
               /\ rpcs' = rpcs
          ELSE /\ \E err \in RpcOutcomes(b) : LogRpc(b, w, <<Rpc(PostOps[k], err, "")>>)
               /\ SetWk(b, w, after)
               /\ onDisk' = onDisk
    /\ UNCHANGED <<uploadMu, drv, workChan, events, ctxDone, consuming, atCancel>>

\* ---------------------------------------------------------- dedup-key codec
\* strings are sequences of one-character strings; bytes are 0..255
Rep(ch, n) == [i \in 1..n |-> ch]
Upper == {"A", "B", "C", "D", "E", "F", "G", "H", "I", "J", "K", "L", "M",
          "N", "O", "P", "Q", "R", "S", "T", "U", "V", "W", "X", "Y", "Z"}

Lower == {"a", "b", "c", "d", "e", "f", "g", "h", "i", "j", "k", "l", "m",
          "n", "o", "p", "q", "r", "s", "t", "u", "v", "w", "x", "y", "z"}

Digits == {"0", "1", "2", "3", "4", "5", "6", "7", "8", "9"}

\* DedupKeyPattern.MatchString with the alphabet of standard base64
DedupKeyPatternStd(s) ==
    Len(s) = 27 /\ \A i \in 1..Len(s) : s[i] \in Upper \cup Lower \cup Digits \cup {"+", "/"}

\* DedupKeyPattern.MatchString(s): ^[A-Za-z0-9_-]{27}$
DedupKeyPattern(s) ==
    Len(s) = 27 /\ \A i \in 1..Len(s) : s[i] \in Upper \cup Lower \cup Digits \cup {"_", "-"}

\* the URL-safe base64 alphabet, by value
URLAlphabet ==
    <<"A", "B", "C", "D", "E", "F", "G", "H", "I", "J", "K", "L", "M",
      "N", "O", "P", "Q", "R", "S", "T", "U", "V", "W", "X", "Y", "Z",
      "a", "b", "c", "d", "e", "f", "g", "h", "i", "j", "k", "l", "m",
      "n", "o", "p", "q", "r", "s", "t", "u", "v", "w", "x", "y", "z",
      "0", "1", "2", "3", "4", "5", "6", "7", "8", "9", "-", "_">>

RECURSIVE Base64Encode(_, _)
\* unpadded base64 of the bytes bs: three bytes give four characters, a rest of
\* one or two bytes gives two or three
Base64Encode(alphabet, bs) ==
    \* the character of a 6-bit value
    LET Sextet(v) == alphabet[v + 1]
    IN
    IF bs = <<>> THEN <<>>
    ELSE IF Len(bs) = 1
    THEN <<Sextet(bs[1] \div 4), Sextet((bs[1] % 4) * 16)>>
    ELSE IF Len(bs) = 2
    THEN <<Sextet(bs[1] \div 4),
           Sextet((bs[1] % 4) * 16 + bs[2] \div 16),
           Sextet((bs[2] % 16) * 4)>>
    ELSE <<Sextet(bs[1] \div 4),
           Sextet((bs[1] % 4) * 16 + bs[2] \div 16),
           Sextet((bs[2] % 16) * 4 + bs[3] \div 64),
           Sextet(bs[3] % 64)>>
         \o Base64Encode(alphabet, SubSeq(bs, 4, Len(bs)))

RECURSIVE Base64Decode(_, _)
\* the bytes of the unpadded base64 string s: [ok, bytes]; a character outside
\* the alphabet or a rest of one character is an error
Base64Decode(alphabet, s) ==
    \* the 6-bit value of a character, or -1
    LET SextetVal(ch) ==
            IF \E v \in 1..Len(alphabet) : alphabet[v] = ch
            THEN (CHOOSE v \in 1..Len(alphabet) : alphabet[v] = ch) - 1 ELSE 0 - 1
    IN
    LET v(i) == SextetVal(s[i])
        n == IF Len(s) >= 4 THEN 4 ELSE Len(s)
        bad == [ok |-> FALSE, bytes |-> <<>>]
    IN IF s = <<>> THEN [ok |-> TRUE, bytes |-> <<>>]
       ELSE IF n = 1 \/ \E i \in 1..n : v(i) < 0 THEN bad
       ELSE IF n = 2 THEN [ok |-> TRUE, bytes |-> <<v(1) * 4 + v(2) \div 16>>]
       ELSE IF n = 3
       THEN [ok |-> TRUE, bytes |-> <<v(1) * 4 + v(2) \div 16, (v(2) % 16) * 16 + v(3) \div 4>>]
       ELSE LET rest == Base64Decode(alphabet, SubSeq(s, 5, Len(s)))
            IN IF ~rest.ok THEN bad
               ELSE [ok |-> TRUE,
                     bytes |-> <<v(1) * 4 + v(2) \div 16, (v(2) % 16) * 16 + v(3) \div 4,
                                 (v(3) % 4) * 64 + v(4)>> \o rest.bytes]

\* SHA1_to_dedup: URL-safe base64 without padding of the raw digest
SHA1ToDedup(h) == Base64Encode(URLAlphabet, h)
\* dedup_to_SHA1: the inverse; fails if the decoded length is not 20: [ok, sha1]
DedupToSHA1(s) ==
    LET d == Base64Decode(URLAlphabet, s)
    IN IF d.ok /\ Len(d.bytes) = 20 THEN [ok |-> TRUE, sha1 |-> d.bytes]
       ELSE [ok |-> FALSE, sha1 |-> <<>>]

MaxKeyLen == 30        \* strings of up to this length are given to dedup_to_SHA1

\* 20-byte SHA-1 digests: sixteen fixed bytes between two free bytes at each end
DigestFiller == <<16, 251, 239, 190, 0, 255, 3, 224, 62, 7, 200, 99, 100, 255, 255, 65>>
NoConversion == [op |-> "none", arg |-> <<>>, ok |-> FALSE, val |-> <<>>]

\* SHA1_to_dedup is applied to the digest
CodecEncode ==
    /\ cin.kind = "digest" /\ cout.op = "none"
    /\ cout' = [op |-> "encode", arg |-> cin.val, ok |-> TRUE, val |-> SHA1ToDedup(cin.val)]
    /\ UNCHANGED <<rin, rout, cin, pin, pout>>

\* dedup_to_SHA1 is applied to the string, or to the key the digest was encoded to
CodecDecode ==
    /\ \/ cin.kind = "key" /\ cout.op = "none"
       \/ cin.kind = "digest" /\ cout.op = "encode"
    /\ LET s == IF cin.kind = "key" THEN cin.val ELSE cout.val
           r == DedupToSHA1(s)
       IN cout' = [op |-> "decode", arg |-> s, ok |-> r.ok, val |-> r.sha1]
    /\ UNCHANGED <<rin, rout, cin, pin, pout>>

\* ------------------------------------------------------ identifier resolver
\* the digests of the files on the host
FileDigests == {<<a, 255>> \o DigestFiller \o <<1, a>> : a \in {0, 128}}
\* CalculateSHA1(ctx, input): its error
ResolveHashOutcomes == {Nil, IoError, Canceled}
\* g.FindMediaKeyByHash(ctx, hash): (mediaKey, err)
ResolveFindOutcomes ==
    \* the media key the library holds for a digest it knows
    LET MediaKeyLib == <<"m", "k">>
    IN
    {[mediaKey |-> MediaKeyLib, err |-> Nil], [mediaKey |-> <<>>, err |-> Nil],
     [mediaKey |-> <<>>, err |-> RpcError], [mediaKey |-> <<>>, err |-> Canceled]}

Resolved(key, err, lookups) == [key |-> key, err |-> err, lookups |-> lookups]
\* ResolveItemKey with the file test before the pattern test
ResolveItemKeyStatFirst(input, exists, sha1, hashErr) ==
    IF input = <<>> THEN Resolved(<<>>, <<"item key or file path is required">>, <<>>)
    ELSE IF exists
    THEN IF hashErr # Nil
         THEN Resolved(<<>>, Errorf("failed to calculate SHA1", hashErr), <<>>)
         ELSE Resolved(SHA1ToDedup(sha1), Nil, <<>>)
    ELSE Resolved(input, Nil, <<>>)

\* ResolveItemKey(ctx, input), given whether os.Stat finds a file at input and
\* what CalculateSHA1 returns for it
ResolveItemKey(input, exists, sha1, hashErr) ==
    IF input = <<>> THEN Resolved(<<>>, <<"item key or file path is required">>, <<>>)
    ELSE IF DedupKeyPattern(input) THEN Resolved(input, Nil, <<>>)
    ELSE IF exists
    THEN IF hashErr # Nil
         THEN Resolved(<<>>, Errorf("failed to calculate SHA1", hashErr), <<>>)
         ELSE Resolved(SHA1ToDedup(sha1), Nil, <<>>)
    ELSE Resolved(input, Nil, <<>>)

\* the test of the lookup's reply, never true
NotFoundNever(mediaKey) == FALSE

\* the test of the lookup's reply: mediaKey == ""
NotFound(mediaKey) == mediaKey = <<>>

\* g.FindMediaKeyByHash and the handling of its reply in ResolveMediaKey
LookedUp(sha1, found, what) ==
    \* the record of a lookup: the hash asked for and the reply
    LET Lookup == [sha1 |-> sha1, mediaKey |-> found.mediaKey, err |-> found.err]
    IN
    IF found.err # Nil
    THEN Resolved(<<>>, Errorf("failed to find media in library", found.err), <<Lookup>>)
    ELSE IF NotFound(found.mediaKey)
    THEN Resolved(<<>>, <<what \o " not found in Google Photos library">>, <<Lookup>>)
    ELSE Resolved(found.mediaKey, Nil, <<Lookup>>)

\* ResolveMediaKey(ctx, input), given the host and the reply of the lookup
ResolveMediaKey(input, exists, sha1, hashErr, found) ==
    IF input = <<>> THEN Resolved(<<>>, <<"item key or file path is required">>, <<>>)
    ELSE IF DedupKeyPattern(input)
    THEN IF ~DedupToSHA1(input).ok
         THEN Resolved(<<>>, <<"failed to decode dedup key">>, <<>>)
         ELSE LookedUp(DedupToSHA1(input).sha1, found, "media")
    ELSE IF exists
    THEN IF hashErr # Nil
         THEN Resolved(<<>>, Errorf("failed to calculate SHA1", hashErr), <<>>)
         ELSE LookedUp(sha1, found, "file")
    ELSE Resolved(input, Nil, <<>>)

NoResolution == [fn |-> "none", key |-> <<>>, err |-> Nil, lookups |-> <<>>]

\* a call of g.ResolveItemKey on the input
CallResolveItemKey ==
    /\ rout.fn = "none"
    /\ \E hashErr \in ResolveHashOutcomes :
         LET r == ResolveItemKey(rin.input, rin.file = "file", rin.sha1, hashErr)
         IN rout' = [fn |-> "item", key |-> r.key, err |-> r.err, lookups |-> r.lookups]
    /\ UNCHANGED <<rin, cin, cout, pin, pout>>

\* a call of g.ResolveMediaKey on the input
CallResolveMediaKey ==
    /\ rout.fn = "none"
    /\ \E hashErr \in ResolveHashOutcomes, found \in ResolveFindOutcomes :
         LET r == ResolveMediaKey(rin.input, rin.file = "file", rin.sha1, hashErr, found)
         IN rout' = [fn |-> "media", key |-> r.key, err |-> r.err, lookups |-> r.lookups]
    /\ UNCHANGED <<rin, cin, cout, pin, pout>>

\* ---------------------------------------------------------- library parser
\* decoded values: Val(t, v) with t one of "nil", "uint" (a varint), "fixed32",
\* "fixed64" (v the little-endian bytes), "string" (v the bytes, or the
\* characters of their base64), "map" (v a function on field numbers; the code
\* keys it by their decimal strings) and "list" (v a sequence of values)
Val(t, v) == [t |-> t, v |-> v]
NilVal == Val("nil", 0)
\* protowire: the negative lengths that report an error
ErrCodeTruncated == 0 - 1

RECURSIVE VarintFrom(_, _, _, _)
\* protowire.ConsumeVarint from byte i on: value so far acc, weight of byte i mult
VarintFrom(b, i, acc, mult) ==
    LET ErrCodeOverflow == 0 - 3
    IN
    IF i > Len(b) THEN [v |-> 0, n |-> ErrCodeTruncated]
    ELSE IF i = 10 /\ b[i] > 1 THEN [v |-> 0, n |-> ErrCodeOverflow]
    ELSE IF b[i] < 128 THEN [v |-> acc + b[i] * mult, n |-> i]
    ELSE VarintFrom(b, i + 1, acc + (b[i] % 128) * mult, mult * 128)

\* protowire.ConsumeVarint(b): (v, n)
ConsumeVarint(b) == VarintFrom(b, 1, 0, 1)

\* protowire.ConsumeTag(b): (num, typ, n)
ConsumeTag(b) ==
    LET ErrCodeFieldNumber == 0 - 2
    IN
    LET t == ConsumeVarint(b)
    IN IF t.n < 0 THEN [num |-> 0, typ |-> 0, n |-> t.n]
       ELSE IF t.v \div 8 < 1 THEN [num |-> 0, typ |-> 0, n |-> ErrCodeFieldNumber]
       ELSE [num |-> t.v \div 8, typ |-> t.v % 8, n |-> t.n]

\* protowire.ConsumeBytes(b): (v, n)
ConsumeBytes(b) ==
    LET m == ConsumeVarint(b)
    IN IF m.n < 0 THEN [v |-> <<>>, n |-> m.n]
       ELSE IF m.v > Len(b) - m.n THEN [v |-> <<>>, n |-> ErrCodeTruncated]
       ELSE [v |-> SubSeq(b, m.n + 1, m.n + m.v), n |-> m.n + m.v]

\* protowire.ConsumeFixed32 / ConsumeFixed64 (size 4 / 8): (v, n)
ConsumeFixed(b, size) ==
    IF Len(b) < size THEN [v |-> <<>>, n |-> ErrCodeTruncated]
    ELSE [v |-> SubSeq(b, 1, size), n |-> size]

\* decodeRune(data): (rune, size)
decodeRune(data) ==
    IF data = <<>> THEN [r |-> 65533, size |-> 0]
    ELSE IF data[1] < 128 THEN [r |-> data[1], size |-> 1]
    ELSE IF data[1] < 192 THEN [r |-> 65533, size |-> 1]
    ELSE IF data[1] < 224
    THEN IF Len(data) < 2 THEN [r |-> 65533, size |-> 1]
         ELSE [r |-> (data[1] % 32) * 64 + (data[2] % 64), size |-> 2]
    ELSE IF data[1] < 240
    THEN IF Len(data) < 3 THEN [r |-> 65533, size |-> 1]
         ELSE [r |-> (data[1] % 16) * 4096 + (data[2] % 64) * 64 + (data[3] % 64), size |-> 3]
    ELSE IF Len(data) < 4 THEN [r |-> 65533, size |-> 1]
    ELSE [r |-> (data[1] % 8) * 262144 + (data[2] % 64) * 4096 + (data[3] % 64) * 64
                 + (data[4] % 64),
          size |-> 4]

RECURSIVE isValidUTF8(_)
\* isValidUTF8(data): every rune decodes and is printable or tab, LF, CR
isValidUTF8(data) ==
    IF data = <<>> THEN TRUE
    ELSE LET d == decodeRune(data)
         IN IF d.r = 65533 /\ d.size = 1 THEN FALSE
            ELSE IF d.r < 32 /\ d.r \notin {9, 10, 13} THEN FALSE
            ELSE isValidUTF8(SubSeq(data, d.size + 1, Len(data)))

StdEncode(bs) ==
    \* the standard base64 alphabet, and base64.StdEncoding.EncodeToString
    LET StdAlphabet == SubSeq(URLAlphabet, 1, 62) \o <<"+", "/">>
    IN
    Base64Encode(StdAlphabet, bs) \o Rep("=", (3 - (Len(bs) % 3)) % 3)

\* the result of a decoding step: st is "ok", "err" (an error is returned) or
\* "panic" (a run-time panic: a slice bound out of range); n the bytes consumed
DecOk(val, n) == [st |-> "ok", val |-> val, err |-> "", n |-> n]
DecErr(msg) == [st |-> "err", val |-> NilVal, err |-> msg, n |-> 0]
DecPanic == [st |-> "panic", val |-> NilVal, err |-> "slice bounds out of range", n |-> 0]

\* the test `n < 0` after a protowire.Consume call, never true
FailedNever(n) == FALSE

\* the test `n < 0` after a protowire.Consume call
Failed(n) == n < 0

RECURSIVE decodeProtobufToJSON(_)
RECURSIVE DecodeFields(_, _)

\* the switch on the wire type in decodeProtobufToJSON: the value and the
\* number of bytes consumed
DecodeValue(typ, data) ==
    IF typ = 0
    THEN LET c == ConsumeVarint(data)
         IN IF Failed(c.n) THEN DecErr("failed to consume varint") ELSE DecOk(Val("uint", c.v), c.n)
    ELSE IF typ = 1
    THEN LET c == ConsumeFixed(data, 8)
         IN IF Failed(c.n) THEN DecErr("failed to consume fixed64")
            ELSE DecOk(Val("fixed64", c.v), c.n)
    ELSE IF typ = 2
    THEN LET c == ConsumeBytes(data)
             nested == decodeProtobufToJSON(c.v)
         IN IF Failed(c.n) THEN DecErr("failed to consume bytes")
            ELSE IF nested.st = "panic" THEN DecPanic
            ELSE IF nested.st = "ok" /\ nested.val.t # "nil" THEN DecOk(nested.val, c.n)
            ELSE IF isValidUTF8(c.v) THEN DecOk(Val("string", c.v), c.n)
            ELSE DecOk(Val("string", StdEncode(c.v)), c.n)
    ELSE IF typ = 5
    THEN LET c == ConsumeFixed(data, 4)
         IN IF Failed(c.n) THEN DecErr("failed to consume fixed32")
            ELSE DecOk(Val("fixed32", c.v), c.n)
    ELSE IF typ \in {3, 4} THEN DecErr("groups not supported")
    ELSE DecErr("unknown wire type")

\* the loop of decodeProtobufToJSON on the bytes left, result holding the
\* fields read so far
DecodeFields(data, result) ==
    \* result[key] = value, a repeated field becoming an array
    LET Put(num, val) ==
            IF num \in DOMAIN result
            THEN IF result[num].t = "list"
                 THEN [result EXCEPT ![num] = Val("list", Append(@.v, val))]
                 ELSE [result EXCEPT ![num] = Val("list", <<@, val>>)]
            ELSE [k \in DOMAIN result \cup {num} |-> IF k = num THEN val ELSE result[k]]
    IN
    \* data[n:]
    LET Slice(d, n) == SubSeq(d, n + 1, Len(d))
    IN
    \* data[n:] is defined
    LET CanSlice(d, n) == n >= 0 /\ n <= Len(d)
    IN
    IF data = <<>>
    THEN DecOk(IF DOMAIN result = {} THEN NilVal ELSE Val("map", result), 0)
    ELSE LET tag == ConsumeTag(data)
         IN IF Failed(tag.n) THEN DecErr("failed to consume tag")
            ELSE IF ~CanSlice(data, tag.n) THEN DecPanic
            ELSE LET rest == Slice(data, tag.n)
                     f == DecodeValue(tag.typ, rest)
                 IN IF f.st # "ok" THEN f
                    ELSE IF ~CanSlice(rest, f.n) THEN DecPanic
                    ELSE DecodeFields(Slice(rest, f.n), Put(tag.num, f.val))

\* decodeProtobufToJSON(data): (value, err)
decodeProtobufToJSON(data) ==
    LET EmptyMap == [k \in {} |-> NilVal]
    IN
    IF data = <<>> THEN DecOk(NilVal, 0) ELSE DecodeFields(data, EmptyMap)

\* m[k] of a decoded map (nil when m is no map or has no such key)
Get(m, k) == IF m.t = "map" /\ k \in DOMAIN m.v THEN m.v[k] ELSE NilVal
\* v, ok := m[k].(map[string]any): the map, or nil
Sub(m, k) == IF Get(m, k).t = "map" THEN Get(m, k) ELSE NilVal
\* if s, ok := m[k].(string); ok: the string, or the zero value
Str(m, k) == IF Get(m, k).t = "string" THEN Get(m, k).v ELSE <<>>
\* if v, exists := m[k]; exists { getInt64(v) }: the number, or zero
Num(m, k) ==
    LET Zero == Val("uint", 0)
    IN
             IF Get(m, k).t \in {"uint", "fixed32", "fixed64"} THEN Get(m, k) ELSE Zero

\* parseMediaItem(item)
parseMediaItem(item) ==
    \* getInt(v) == 2
    LET IsTwo(n) ==
            IF n.t = "uint" THEN n.v = 2
            ELSE n.v[1] = 2 /\ \A i \in 2..Len(n.v) : n.v[i] = 0
    IN
    LET meta == Sub(item, 2)
        dl == Sub(item, 5)
        img == Sub(Sub(dl, 2), 1)
        vid == Sub(Sub(dl, 3), 2)
        \* the video's value overwrites the image's
        Pick(has, a, b) == IF has THEN a ELSE b
    IN [MediaKey |-> Str(item, 1),
        Filename |-> Str(meta, 4),
        Caption |-> Str(meta, 3),
        CreationTimestamp |-> Num(meta, 7),
        FileSize |-> Num(meta, 10),
        DedupKey |-> Str(Sub(meta, 13), 1),
        AlbumMediaKey |-> Str(Sub(meta, 1), 1),
        IsInTrash |-> IsTwo(Num(Sub(meta, 16), 1)),
        TrashedAt |-> Num(Sub(meta, 16), 3),
        IsVideo |-> IsTwo(Num(dl, 1)),
        DownloadURL |-> Pick(Get(Sub(dl, 3), 5).t = "string", Str(Sub(dl, 3), 5), Str(Sub(dl, 2), 6)),
        ThumbnailURL |-> Pick(Get(vid, 1).t = "string", Str(vid, 1), Str(img, 1)),
        Width |-> Pick(Get(vid, 2).t # "nil", Num(vid, 2), Num(img, 2)),
        Height |-> Pick(Get(vid, 3).t # "nil", Num(vid, 3), Num(img, 3))]

\* parseAlbum(item)
parseAlbum(item) ==
    LET meta == Sub(item, 2)
    IN [AlbumKey |-> Str(item, 1), Name |-> Str(meta, 5), ItemCount |-> Num(meta, 7),
        CoverKey |-> Str(Sub(meta, 17), 1)]

\* the elements of m[k].([]any) that are maps, each through parse
MapsOf(m, k) ==
    LET IsMapVal(v) == v.t = "map"
    IN
                IF Get(m, k).t = "list" THEN SelectSeq(Get(m, k).v, IsMapVal) ELSE <<>>

\* &LibraryResponse{}
EmptyResponse == [StateToken |-> <<>>, PageToken |-> <<>>, MediaItems |-> <<>>, Albums |-> <<>>]

\* parseLibraryResponse that takes bytes it cannot decode for an empty reply
parseLibraryResponseNoError(data) ==
    LET d == decodeProtobufToJSON(data)
        field1 == Sub(d.val, 1)
        items == MapsOf(field1, 2)
        albums == MapsOf(field1, 3)
    IN IF d.st = "panic" THEN [st |-> "panic", resp |-> EmptyResponse, err |-> Nil]
       ELSE IF d.st = "err" THEN [st |-> "ok", resp |-> EmptyResponse, err |-> Nil]
       ELSE [st |-> "ok", err |-> Nil,
             resp |-> [StateToken |-> Str(field1, 6), PageToken |-> Str(field1, 5),
                       MediaItems |-> [i \in 1..Len(items) |-> parseMediaItem(items[i])],
                       Albums |-> [i \in 1..Len(albums) |-> parseAlbum(albums[i])]]]

\* parseLibraryResponse(data): (resp, err), or a panic
parseLibraryResponse(data) ==
    LET d == decodeProtobufToJSON(data)
        field1 == Sub(d.val, 1)
        items == MapsOf(field1, 2)
        albums == MapsOf(field1, 3)
    IN IF d.st = "panic" THEN [st |-> "panic", resp |-> EmptyResponse, err |-> Nil]
       ELSE IF d.st = "err"
       THEN [st |-> "err", resp |-> EmptyResponse,
             err |-> Errorf("failed to decode protobuf", <<d.err>>)]
       ELSE [st |-> "ok", err |-> Nil,
             resp |-> [StateToken |-> Str(field1, 6), PageToken |-> Str(field1, 5),
                       MediaItems |-> [i \in 1..Len(items) |-> parseMediaItem(items[i])],
                       Albums |-> [i \in 1..Len(albums) |-> parseAlbum(albums[i])]]]

MaxDataLen == 3        \* every byte string of up to this length is parsed

RECURSIVE AppendVarint(_, _)
\* protowire.AppendVarint(b, v)
AppendVarint(b, v) ==
    IF v < 128 THEN Append(b, v) ELSE AppendVarint(Append(b, 128 + (v % 128)), v \div 128)

\* appendVarintField(b, fieldNum, value)
appendVarintField(b, fieldNum, value) == AppendVarint(AppendVarint(b, fieldNum * 8), value)
\* appendMessage(b, fieldNum, msg), appendBytesField and appendStringField alike
appendMessage(b, fieldNum, msg) ==
    AppendVarint(AppendVarint(b, fieldNum * 8 + 2), Len(msg)) \o msg

MaxItems == 2          \* replies hold up to this many items and as many albums

\* a library response with n items and m albums:
\* 1 = {2: item (n times), 6: "s", 5: "p", 3: album (m times)}
\* where item number bare and album number bare (if any) hold their key only
Reply(n, m, bare) ==
    \* an album: 1 = "a", 2 = {5: "n", 7: 3}
    LET SampleAlbum ==
            appendMessage(appendMessage(<<>>, 1, <<97>>), 2,
                          appendVarintField(appendMessage(<<>>, 5, <<110>>), 7, 3))
    IN
    \* a video item: 1 = "k", 5 = {1: 2, 3: {5: "u"}}
    LET SampleItem ==
            appendMessage(appendMessage(<<>>, 1, <<107>>), 5,
                          appendMessage(appendVarintField(<<>>, 1, 2), 3, appendMessage(<<>>, 5, <<117>>)))
    IN
    LET Item(k) == IF k = bare THEN appendMessage(<<>>, 1, <<107>>) ELSE SampleItem
        Album(k) == IF k = bare THEN appendMessage(<<>>, 1, <<97>>) ELSE SampleAlbum
        items[k \in 0..n] == IF k = 0 THEN <<>> ELSE appendMessage(items[k - 1], 2, Item(k))
        tokens == appendMessage(appendMessage(items[n], 6, <<115>>), 5, <<112>>)
        albums[k \in 0..m] == IF k = 0 THEN tokens ELSE appendMessage(albums[k - 1], 3, Album(k))
    IN appendMessage(<<>>, 1, albums[m])

\* a library response of two items and two albums
SampleResponse == Reply(2, 2, 0)

NotParsed == [st |-> "none", resp |-> EmptyResponse, err |-> Nil]

\* parseLibraryResponse is called on the response body
Parse ==
    /\ pout.st = "none"
    /\ pout' = parseLibraryResponse(pin)
    /\ UNCHANGED <<rin, rout, cin, cout, pin>>

\* ---------------------------------------------------------- config manager
\* the account emails of the credential strings
Emails == {"a", "b", "c"}

\* AddCredentials' requiredFields without Token
requiredFieldsNoToken == <<"androidId", "app", "client_sig", "Email", "lang", "service">>

\* AddCredentials' requiredFields
requiredFields == <<"androidId", "app", "client_sig", "Email", "Token", "lang", "service">>

\* the credential strings given to AddCredentials, each the sequence of its
\* `key=value` pieces (a value "%" is an invalid URL escape): complete strings,
\* strings with one required field absent or empty, with one required field
\* given twice (empty, then set), with a malformed piece, with an empty
\* Email, and the empty string
AuthStrings ==
    LET Piece(k, v) == [k |-> k, v |-> v]
        Full(e) == [i \in 1..Len(requiredFields) |->
                      Piece(requiredFields[i], IF requiredFields[i] = "Email" THEN e ELSE "x")]
        Without(e, i) == SubSeq(Full(e), 1, i - 1) \o SubSeq(Full(e), i + 1, Len(requiredFields))
    IN {Full(e) : e \in Emails}
       \cup {Without("a", i) : i \in 1..Len(requiredFields)}
       \cup {[Full("a") EXCEPT ![i].v = ""] : i \in 1..Len(requiredFields)}
       \cup {<<Piece("Token", "")>> \o Full("b")}
       \cup {Append(Full("c"), Piece("sdk_version", "%")), Append(Without("a", 5), Piece("x", "%"))}
       \cup {<<>>}

\* url.ParseQuery(authString): the error of a piece that cannot be unescaped,
\* and Get(key), the first value given for the key or ""
ParseQuery(authString) ==
    LET good == SelectSeq(authString, LAMBDA p : p.v # "%")
        Of(key) == SelectSeq(good, LAMBDA p : p.k = key)
    IN [err |-> good # authString,
        Get |-> [key \in {requiredFields[i] : i \in 1..Len(requiredFields)} |->
                    IF Of(key) = <<>> THEN "" ELSE Of(key)[1].v]]

\* m.Save() after the change to next: the file is written (saved) or the
\* write fails and Save's error is returned
Save(op, arg, email, next, saved) ==
    /\ config' = next
    /\ disk' = IF saved THEN next ELSE disk
    /\ cfgRet' = [op |-> op, arg |-> arg, email |-> IF saved THEN email ELSE "",
                  err |-> IF saved THEN Nil ELSE <<"failed to write config file">>]

\* a ConfigManager call that returns err before it changes anything
Reject(op, arg, err) ==
    /\ cfgRet' = [op |-> op, arg |-> arg, email |-> "", err |-> err]
    /\ UNCHANGED <<config, disk>>

\* findAccountIndex(email) >= 0, or the map has the key
HasAccount(email) == \E i \in 1..Len(config.Accounts) : config.Accounts[i] = email

\* ConfigManager.AddCredentials(authString)
AddCredentials(authString, saved) ==
    LET params == ParseQuery(authString)
        missingFields == SelectSeq(requiredFields, LAMBDA field : params.Get[field] = "")
        email == params.Get["Email"]
    IN /\ IF params.err
          THEN Reject("add", authString, <<"invalid auth string format">>)
          ELSE IF Len(missingFields) > 0
          THEN Reject("add", authString,
                      <<"auth string missing required fields">> \o missingFields)
          ELSE IF HasAccount(email)
          THEN Reject("add", authString, <<"account already exists">>)
          ELSE Save("add", authString, email,
                    [Selected |-> email, Accounts |-> Append(config.Accounts, email)], saved)
       /\ UNCHANGED <<accountsKind, api, commitReq>>

\* ConfigManager.RemoveCredentials(email): when the selected account is
\* removed, the first remaining account is selected (the slice's first; the
\* first the map's iteration gives, which is any), or none
RemoveCredentials(email, saved) ==
    LET rest == SelectSeq(config.Accounts, LAMBDA e : e # email)
        firsts == IF rest = <<>> THEN {""}
                  ELSE IF accountsKind = "slice" THEN {rest[1]}
                  ELSE {rest[i] : i \in 1..Len(rest)}
    IN /\ IF ~HasAccount(email)
          THEN Reject("remove", email, <<"account does not exist">>)
          ELSE \E sel \in (IF config.Selected = email THEN firsts ELSE {config.Selected}) :
                  Save("remove", email, "", [Selected |-> sel, Accounts |-> rest], saved)
       /\ UNCHANGED <<accountsKind, api, commitReq>>

\* ConfigManager.SetSelected(email)
SetSelected(email, saved) ==
    /\ IF ~HasAccount(email)
       THEN Reject("select", email, <<"account does not exist">>)
       ELSE Save("select", email, "", [config EXCEPT !.Selected = email], saved)
    /\ UNCHANGED <<accountsKind, api, commitReq>>

\* ------------------------------------------------------------ CommitUpload
\* the quality strings a caller or a configuration gives
Qualities == {"", "original", "storage-saver", "high"}

\* Api.SetModel(model)
SetModel(model) ==
    /\ api' = [api EXCEPT !.Model = model]
    /\ UNCHANGED <<accountsKind, config, disk, cfgRet, commitReq>>

\* the device model and the quality code CommitUpload puts in its request
CommitRequest(qualityStr, useQuota) ==
    LET effectiveQuality == IF qualityStr = "" THEN api.Quality ELSE qualityStr
        effectiveUseQuota == useQuota \/ api.UseQuota
        saver == effectiveQuality = "storage-saver"
        quality == IF saver THEN 1 ELSE 3
        model == IF saver THEN "Pixel 2" ELSE api.Model
    IN [qualityStr |-> qualityStr, useQuota |-> useQuota, Quality |-> quality,
        Model |-> IF effectiveUseQuota THEN "Pixel 8" ELSE model]

\* Api.CommitUpload that also stores the request's model as the client's
CommitUploadSetsModel(qualityStr, useQuota) ==
    /\ commitReq' = CommitRequest(qualityStr, useQuota)
    /\ api' = [api EXCEPT !.Model = commitReq'.Model]
    /\ UNCHANGED <<accountsKind, config, disk, cfgRet>>

\* Api.CommitUpload(ctx, commitToken, fileName, sha1Hash, ts, qualityStr, useQuota)
\* builds and sends its request
CommitUpload(qualityStr, useQuota) ==
    /\ commitReq' = CommitRequest(qualityStr, useQuota)
    /\ UNCHANGED <<accountsKind, config, disk, cfgRet, api>>

\* ------------------------------------------------------------ specifications
\* the options the callers of the model pass: the post-upload operations are
\* requested together or not at all
CallOptions ==
    {o \in UploadOptions : /\ o.ShouldFavourite = (o.Caption # "")
                           /\ o.ShouldArchive = (o.Caption # "")
                           /\ o.DeleteFromHost = (o.Caption # "")}

\* one step of the upload pipeline for a batch of B called with options of O
\* on a path whose scan gives a result of S
UploadNext(B, O, S) ==
    \/ \E b \in B : \E o \in O : UploadCall(b, o) /\ UNCHANGED <<authVars, libVars, cliVars>>
    \/ \E b \in B : DLock(b) /\ UNCHANGED <<authVars, libVars, cliVars>>
    \/ \E b \in B : \E res \in S : DScan(b, res) /\ UNCHANGED <<authVars, libVars, cliVars>>
    \/ \E b \in B : DSendFail(b) /\ UNCHANGED <<authVars, libVars, cliVars>>
    \/ \E b \in B : DSpawn(b) /\ UNCHANGED <<authVars, libVars, cliVars>>
    \/ \E b \in B : DLoop(b) /\ UNCHANGED <<authVars, libVars, cliVars>>
    \/ \E b \in B : DSendTotal(b) /\ UNCHANGED <<authVars, libVars, cliVars>>
    \/ \E b \in B : DWait(b) /\ UNCHANGED <<authVars, libVars, cliVars>>
    \/ \E b \in B : RunDeferred(b) /\ UNCHANGED <<authVars, libVars, cliVars>>
    \/ \E b \in B : Cancel(b) /\ UNCHANGED <<authVars, libVars, cliVars>>
    \/ \E b \in B : \E w \in WorkerIds : WorkerRange(b, w) /\ UNCHANGED <<authVars, libVars, cliVars>>
    \/ \E b \in B : \E w \in WorkerIds : WorkerSend(b, w) /\ UNCHANGED <<authVars, libVars, cliVars>>
    \/ \E b \in B : \E w \in WorkerIds : UFHash(b, w) /\ UNCHANGED <<authVars, libVars, cliVars>>
    \/ \E b \in B : \E w \in WorkerIds : UFFind(b, w) /\ UNCHANGED <<authVars, libVars, cliVars>>
    \/ \E b \in B : \E w \in WorkerIds : UFToken(b, w) /\ UNCHANGED <<authVars, libVars, cliVars>>
    \/ \E b \in B : \E w \in WorkerIds : UFPut(b, w) /\ UNCHANGED <<authVars, libVars, cliVars>>
    \/ \E b \in B : \E w \in WorkerIds : UFCommit(b, w) /\ UNCHANGED <<authVars, libVars, cliVars>>
    \/ \E b \in B : \E w \in WorkerIds : UFPostOps(b, w) /\ UNCHANGED <<authVars, libVars, cliVars>>

\* no resolver call, no conversion, no response to parse
InitLibQuiet ==
    /\ rin = [input |-> <<>>, file |-> "none", sha1 |-> <<>>]
    /\ rout = NoResolution
    /\ cin = [kind |-> "none", val |-> <<>>]
    /\ cout = NoConversion
    /\ pin = <<>>
    /\ pout = NotParsed

\* NewConfigManager on a new configuration of a kind of K and NewApi with a
\* default quality of Q and a UseQuota of U: no account, no call made yet
InitCli(K, Q, U) ==
    LET NoAccounts == [Selected |-> "", Accounts |-> <<>>]
    IN /\ accountsKind \in K
       /\ config = NoAccounts
       /\ disk = NoAccounts
       /\ cfgRet = [op |-> "none", arg |-> "", email |-> "", err |-> Nil]
       /\ api \in [Model : {"Pixel XL"}, Quality : Q, UseQuota : U]
       /\ commitReq = [qualityStr |-> "", useQuota |-> FALSE, Quality |-> 0, Model |-> ""]

InitCliQuiet == InitCli({"slice"}, {""}, {FALSE})

\* one Upload call on the client
\* the client after NewGooglePhotosAPI, before any call
InitClient == InitAuthQuiet /\ InitUpload /\ InitLibQuiet /\ InitCliQuiet

NextUpload == UploadNext({1}, CallOptions, ScanResults)
SpecUpload == InitClient /\ [][NextUpload]_vars

NextSerial ==
    \* several Upload calls on the client, each with one worker and on a path
    \* holding at most one file
    LET SerialOptions == {o \in CallOptions : o.Workers = 1 /\ o.Caption = ""}
    IN
    LET SerialScans == {r \in ScanResults : r.files <= 1}
    IN
              UploadNext(Batches, SerialOptions, SerialScans)

SpecSerial == InitClient /\ [][NextSerial]_vars

NextStalled ==
    \* the serial batches, whose callers may stop receiving at any time
    \/ NextSerial
    \/ \E b \in Batches : StopReceiving(b) /\ UNCHANGED <<authVars, libVars, cliVars>>

SpecStalled == InitClient /\ [][NextStalled]_vars

NextFair ==
    \* one Upload call whose goroutines are scheduled fairly, whose RPCs return and
    \* whose consumer keeps receiving; the caller is free to cancel or not
    LET FairOptions == {o \in CallOptions : o.Workers \in {0, MaxFiles}}
    IN
            UploadNext({1}, FairOptions, ScanResults)

Fairness ==
    /\ WF_vars(DLock(1) /\ UNCHANGED <<authVars, libVars, cliVars>>)
    /\ WF_vars((\E res \in ScanResults : DScan(1, res)) /\ UNCHANGED <<authVars, libVars, cliVars>>)
    /\ WF_vars(DSendFail(1) /\ UNCHANGED <<authVars, libVars, cliVars>>)
    /\ WF_vars(DSpawn(1) /\ UNCHANGED <<authVars, libVars, cliVars>>)
    /\ WF_vars(DLoop(1) /\ UNCHANGED <<authVars, libVars, cliVars>>)
    /\ WF_vars(DSendTotal(1) /\ UNCHANGED <<authVars, libVars, cliVars>>)
    /\ WF_vars(DWait(1) /\ UNCHANGED <<authVars, libVars, cliVars>>)
    /\ WF_vars(RunDeferred(1) /\ UNCHANGED <<authVars, libVars, cliVars>>)
    /\ \A w \in WorkerIds :
         /\ WF_vars(WorkerRange(1, w) /\ UNCHANGED <<authVars, libVars, cliVars>>)
         /\ WF_vars(WorkerSend(1, w) /\ UNCHANGED <<authVars, libVars, cliVars>>)
         /\ WF_vars(UFHash(1, w) /\ UNCHANGED <<authVars, libVars, cliVars>>)
         /\ WF_vars(UFFind(1, w) /\ UNCHANGED <<authVars, libVars, cliVars>>)
         /\ WF_vars(UFToken(1, w) /\ UNCHANGED <<authVars, libVars, cliVars>>)
         /\ WF_vars(UFPut(1, w) /\ UNCHANGED <<authVars, libVars, cliVars>>)
         /\ WF_vars(UFCommit(1, w) /\ UNCHANGED <<authVars, libVars, cliVars>>)
         /\ WF_vars(UFPostOps(1, w) /\ UNCHANGED <<authVars, libVars, cliVars>>)

SpecUploadFair == InitClient /\ [][NextFair]_vars /\ Fairness

\* the auth manager alone: concurrent GetAuthToken callers and the clock
NextAuth ==
    \/ \E c \in Callers : AuthLock(c) /\ UNCHANGED <<upVars, libVars, cliVars>>
    \/ \E c \in Callers : AuthCheck(c) /\ UNCHANGED <<upVars, libVars, cliVars>>
    \/ \E c \in Callers : \E reply \in AuthReplies : AuthReply(c, reply) /\ UNCHANGED <<upVars, libVars, cliVars>>
    \/ Tick /\ UNCHANGED <<upVars, libVars, cliVars>>

\* the client with GetAuthToken callers waiting, on any cache content
InitCallers == InitAuth /\ InitUpload /\ InitLibQuiet /\ InitCliQuiet
SpecAuth == InitCallers /\ [][NextAuth]_vars

\* --------------------------------------------------------------- C1
\* C1: token refresh is single-flight: at any instant at most one call of the
\* token-exchange endpoint is in progress, whatever the number of concurrent
\* callers and whatever the cache content.
InFlight == {c \in Callers : apc[c] = "refresh"}
C1_SingleFlight == Cardinality(InFlight) <= 1
\* an exchange is in flight while another caller is waiting for the mutex
C1_Witness == \E c, d \in Callers : c # d /\ apc[c] = "refresh" /\ apc[d] = "waiting"

\* --------------------------------------------------------------- C2
AllReturned == \A c \in Callers : apc[c] = "done"
\* the cache was empty or expired when the callers arrived: the first caller
\* through the mutex had to start an exchange
StartedInvalid == Len(exch) >= 1 /\ exch[1].before = 0
\* C2 as stated: N concurrent callers on an empty or expired cache perform
\* exactly one round-trip in total and all return the same token.
C2_Original ==
    (AllReturned /\ StartedInvalid) =>
        /\ Len(exch) = 1
        /\ \A c \in Callers : ares[c] = [token |-> exch[1].token, err |-> ""]

\* C2 as amended: when N callers arrive on an empty or expired cache and the
\* first exchange succeeds, is stored by the token cache and has not expired by
\* the time the last caller returns, exactly one round-trip is performed in
\* total and all N callers return that exchange's token.
C2_OneRoundTrip ==
    (/\ AllReturned /\ StartedInvalid
     /\ exch[1].err = "" /\ exch[1].stored /\ exch[1].expiry > now) =>
        /\ Len(exch) = 1
        /\ \A c \in Callers : ares[c] = [token |-> exch[1].token, err |-> ""]

\* all callers have returned after one successful, stored, unexpired exchange
C2_Witness ==
    /\ AllReturned /\ StartedInvalid
    /\ exch[1].err = "" /\ exch[1].stored /\ exch[1].expiry > now
    /\ NCallers >= 2

\* ------------------------------------------------------- event-stream views
\* the batch has taken the upload mutex (it holds it or has released it)
Started(b) == drv[b].pc \notin {"idle", "lock"}
Closed(b) == events[b].closed > 0
FilesOf(b) == 1..drv[b].files
LastEvent(b, f) == events[b].sent[f][Len(events[b].sent[f])]
\* the events of the batch that name no file
Pathless(b) == events[b].sent[0]
TotalEvents(b) == {i \in 1..Len(Pathless(b)) : Pathless(b)[i].Total > 0}
\* every event delivered on the batch's channel
AllEvents(b) ==
    UNION {{events[b].sent[k][i] : i \in 1..Len(events[b].sent[k])} : k \in 0..MaxFiles}

\* the workers inside uploadFile
Active(b) == {w \in WorkerIds : wk[b][w].pc \notin {"none", "range", "exited"}}
StartedWorkers(b) == {w \in WorkerIds : wk[b][w].pc # "none"}

\* --------------------------------------------------------------- C3
\* C3: upload batches on one client are totally ordered: a batch does no work
\* (it does not get past the mutex) while another batch that took the mutex
\* has its event channel still open; and a batch that has released the mutex
\* has its channel closed.
C3_BatchesSerialized ==
    /\ \A a, b \in Batches :
         (a # b /\ Started(a) /\ ~Closed(a)) => ~Started(b) \/ Closed(b)
    /\ \A b \in Batches : (Started(b) /\ uploadMu # b) => Closed(b)

\* the first batch has delivered events and is closed; the second has then
\* delivered events of its own
C3_Witness ==
    \E a, b \in Batches :
        a # b /\ Closed(a) /\ NSent(a) > 1 /\ NSent(b) > 1 /\ ~Closed(b)

\* --------------------------------------------------------------- C4
\* min(max(1, W), F), written out
ExpectedWorkers(b) ==
    LET w == drv[b].opts.Workers
        f == drv[b].files
    IN IF w < 1 THEN 1 ELSE IF w < f THEN w ELSE f

\* C4: in a batch of F > 0 files with requested worker count W, never more
\* than min(max(1, W), F) workers are started, exactly that many once the
\* start loop is over, and never more files than that are in uploadFile.
C4_WorkerCount ==
    \A b \in Batches :
        drv[b].files > 0 =>
            /\ Cardinality(StartedWorkers(b)) <= ExpectedWorkers(b)
            /\ drv[b].pc # "spawn" => Cardinality(StartedWorkers(b)) = ExpectedWorkers(b)
            /\ Cardinality({wk[b][w].file : w \in Active(b)}) <= ExpectedWorkers(b)

\* more workers requested than files: as many files in uploadFile as there are files
C4_Witness ==
    \E b \in Batches :
        /\ drv[b].files >= 2 /\ drv[b].opts.Workers > drv[b].files
        /\ Cardinality({wk[b][w].file : w \in Active(b)}) = drv[b].files

C6_TerminalLast ==
    \A b \in Batches : \A f \in FileIds :
        LET evs == events[b].sent[f] IN
        /\ \A i \in 1..Len(evs) : evs[i].Status \in TerminalStatuses => i = Len(evs)
        /\ (Closed(b) /\ evs # <<>>) => LastEvent(b, f).Status \in TerminalStatuses
        /\ (Closed(b) /\ ~ctxDone[b] /\ f \in FilesOf(b)) => evs # <<>>

\* a closed stream in which one file ended failed on a stat error and another completed
C6_Witness ==
    \E b \in Batches : \E f, g \in FileIds :
        /\ Closed(b) /\ events[b].sent[f] # <<>> /\ events[b].sent[g] # <<>>
        /\ LastEvent(b, f).Status = StatusFailed
        /\ LastEvent(b, f).Error = Errorf("stat error", IoError)
        /\ LastEvent(b, g).Status = StatusCompleted

\* --------------------------------------------------------------- C7
\* C7: every completed or skipped event carries a non-empty media key and
\* every failed event carries a non-nil error.
C7_KeysAndErrors ==
    \A b \in Batches : \A ev \in AllEvents(b) :
        /\ ev.Status \in {StatusCompleted, StatusSkipped} => ev.MediaKey # ""
        /\ ev.Status = StatusFailed => ev.Error # Nil

\* a stream holding a skipped event of one file and a failed event of another
\* whose lookup returned no key and no error
C7_Witness ==
    \E b \in Batches : \E f, g \in FileIds :
        /\ events[b].sent[f] # <<>> /\ events[b].sent[g] # <<>>
        /\ LastEvent(b, f).Status = StatusSkipped
        /\ LastEvent(b, g).Status = StatusFailed
        /\ Rpc("find", Nil, "") \in {rpcs[b][g][i] : i \in 1..Len(rpcs[b][g])}

MidBatch(b) == ctxDone[b] /\ atCancel[b].mid
\* C9 as stated: after a cancellation in the middle of a batch, every file that
\* had no terminal event at the cancellation has a failed event carrying the
\* cancellation error when the stream closes, and no commit call was made for it.
C9_Original ==
    \A b \in Batches :
        (Closed(b) /\ MidBatch(b)) =>
            \A f \in FilesOf(b) \ atCancel[b].terminal :
                /\ events[b].sent[f] # <<>>
                /\ LastEvent(b, f).Status = StatusFailed
                /\ LastEvent(b, f).Error # Nil
                /\ LastEvent(b, f).Error[Len(LastEvent(b, f).Error)] = Canceled[1]
                /\ \A i \in 1..Len(rpcs[b][f]) : rpcs[b][f][i].op # "upload_commit"

\* --------------------------------------------------------------- C10
\* C10: with ForceUpload false, a file whose hash lookup returned a non-empty
\* media key gets, after hashing and checking, a skipped event carrying that
\* media key and the dedup key of its digest (delivered by the time the stream
\* closes), and the lookup is the only RPC ever issued for it.
C10_SkipNoUpload ==
    \A b \in Batches : \A f \in FileIds :
        (/\ ~drv[b].opts.ForceUpload
         /\ rpcs[b][f] # <<>>
         /\ rpcs[b][f][1].op = "find" /\ rpcs[b][f][1].mediaKey # "") =>
            LET evs == events[b].sent[f] IN
            /\ Len(rpcs[b][f]) = 1
            /\ Len(evs) \in {2, 3}
            /\ evs[1].Status = StatusHashing /\ evs[2].Status = StatusChecking
            /\ Len(evs) = 3 =>
                 evs[3] = UploadEvent(f, StatusSkipped, rpcs[b][f][1].mediaKey,
                                      SHA1ToDedupeKey(Sha1Of(b, f)), Nil, evs[1].WorkerID, 0)
            /\ Closed(b) => Len(evs) = 3

\* a closed stream with a skipped file in a batch that asked for post-upload
\* operations and deletion
C10_Witness ==
    \E b \in Batches : \E f \in FileIds :
        /\ Closed(b) /\ ~drv[b].opts.ForceUpload /\ drv[b].opts.Caption # ""
        /\ events[b].sent[f] # <<>> /\ LastEvent(b, f).Status = StatusSkipped
        /\ ~onDisk[b][f]

\* --------------------------------------------------------------- C11
\* the calls of the three upload phases, whose error ends the file's processing
PhaseOps == {"upload_reserve", "upload_stream", "upload_commit"}
RequestedCalls(o) ==
    (IF o.Caption # "" THEN <<"set_caption">> ELSE <<>>)
    \o (IF o.ShouldFavourite THEN <<"set_favourite">> ELSE <<>>)
    \o (IF o.ShouldArchive THEN <<"set_archived">> ELSE <<>>)

\* the positions of the successful commits in a file's calls
Commits(b, f) ==
    {i \in 1..Len(rpcs[b][f]) : /\ rpcs[b][f][i].op = "upload_commit"
                                /\ rpcs[b][f][i].err = Nil /\ rpcs[b][f][i].mediaKey # ""}

\* the calls made for the file after position i
CallsAfter(b, f, i) == [j \in 1..(Len(rpcs[b][f]) - i) |-> rpcs[b][f][i + j].op]
IsPrefix(p, q) == Len(p) <= Len(q) /\ \A j \in 1..Len(p) : p[j] = q[j]
\* C12: after a successful commit the calls made for the file are set_caption,
\* set_favourite, set_archived, each iff requested and in this order, whatever
\* errors the earlier ones returned; the source file is removed only if
\* delete_from_host and only after all of them; the completed event is sent
\* only after all of them and the removal and carries the committed media
\* key; and when the stream is closed it is the file's last event.
C12_PostOpsOrder ==
    \A b \in Batches : \A f \in FileIds : \A i \in Commits(b, f) :
        LET evs == events[b].sent[f]
            all == RequestedCalls(drv[b].opts)
            done == CallsAfter(b, f, i) = all
            completed == evs # <<>> /\ LastEvent(b, f).Status = StatusCompleted
        IN /\ IsPrefix(CallsAfter(b, f, i), all)
           /\ ~onDisk[b][f] => drv[b].opts.DeleteFromHost /\ done
           /\ completed =>
                /\ done
                /\ drv[b].opts.DeleteFromHost => ~onDisk[b][f]
                /\ LastEvent(b, f).MediaKey = rpcs[b][f][i].mediaKey
                /\ LastEvent(b, f).Error = Nil
           /\ Closed(b) => completed

\* a file completed although its three post-upload calls all failed, and removed
C12_Witness ==
    \E b \in Batches : \E f \in FileIds : \E i \in Commits(b, f) :
        /\ Closed(b) /\ ~ctxDone[b] /\ ~onDisk[b][f]
        /\ Len(rpcs[b][f]) = i + 3
        /\ \A j \in 1..3 : rpcs[b][f][i + j].err = RpcError
        /\ LastEvent(b, f).Status = StatusCompleted

\* --------------------------------------------------------------- C13
\* C13: when the filtered file list of a batch is empty, no event is ever
\* delivered on its stream (no total event, no status event), no worker is
\* started, and the stream is closed, once, when the goroutine returns.
C13_EmptyNoEvents ==
    \A b \in Batches :
        drv[b].scan = "empty" =>
            /\ NSent(b) = 0 /\ events[b].panics = 0
            /\ StartedWorkers(b) = {}
            /\ drv[b].pc \in {"defer1", "done"} => events[b].closed = 1

\* a batch on an empty file list has returned
C13_Witness ==
    \E b \in Batches : drv[b].scan = "empty" /\ drv[b].pc = "done" /\ Closed(b)

\* ----------------------------------------------------- GetAuthToken, as steps
\* caller c's GetAuthToken reads the cache in this step
Checks(c) == apc[c] = "locked" /\ apc'[c] # "locked"
\* caller c's token exchange returns in this step, and GetAuthToken with it
Replies(c) == apc[c] = "refresh" /\ apc'[c] = "done"
\* the reply caller c's exchange received in this step
ReplyOf(c) == exch'[ExchOf(c)].reply
\* a reply carrying Auth and a decimal Expiry in a readable 2xx response
GoodReply(r) ==
    /\ r.net = "ok" /\ r.status = 200 /\ r.gzip
    /\ r.Auth # "" /\ ParseInt(r.Expiry).ok

\* (A, E) as the token cache's get returns it
Entry(r) == [token |-> r.Auth, expiry |-> ParseInt(r.Expiry).val]

\* --------------------------------------------------------------- C14
\* the step of a caller that finds a valid token in the cache
C14_CacheHit(c) ==
    (Checks(c) /\ CacheGet.token # "" /\ CacheGet.expiry > now) =>
        /\ apc'[c] = "done"
        /\ ares'[c] = [token |-> CacheGet.token, err |-> ""]
        /\ exch' = exch
        /\ cacheToken' = cacheToken /\ cacheExpiry' = cacheExpiry

\* C14: when the cache holds no valid token and the exchange replies Auth=A,
\* Expiry=E, GetAuthToken returns A and the token cache (MemoryTokenCache, or
\* ConfigTokenCache with its account in the config; C16 is about a set without
\* effect) holds (A, E) when the mutex is released; on a valid cached token
\* GetAuthToken returns it without exchange and without writing the cache.
C14_RefreshStores ==
    [][\A c \in Callers :
          /\ (Replies(c) /\ GoodReply(ReplyOf(c))) =>
                /\ authMu = c /\ authMu' = NoOne
                /\ ares'[c] = [token |-> ReplyOf(c).Auth, err |-> ""]
                /\ CacheStores => CacheGet' = Entry(ReplyOf(c))
          /\ C14_CacheHit(c)]_vars

\* one caller refreshed and stored (t1, 10); the next returned t1 from the cache
C14_Witness ==
    /\ Len(exch) = 1 /\ exch[1].done /\ exch[1].reply.Auth = "t1"
    /\ exch[1].reply.Expiry = <<"1", "0">>
    /\ cacheToken = "t1" /\ cacheExpiry = 10
    /\ \A c \in Callers : apc[c] = "done" /\ ares[c] = [token |-> "t1", err |-> ""]

\* --------------------------------------------------------------- C15
\* the failures of the token exchange the claim lists
BadReply(r) ==
    \/ r.net = "error"
    \/ ~(r.status >= 200 /\ r.status < 300)
    \/ r.Auth = "" \/ r.Expiry = <<>>
    \/ ~ParseInt(r.Expiry).ok

\* C15: when the token exchange fails (transport error, non-2xx status, reply
\* missing Auth or Expiry, unparseable Expiry), GetAuthToken returns an error
\* and no token, and the token cache is left as it was.
C15_FailureKeepsCache ==
    [][\A c \in Callers :
          (Replies(c) /\ BadReply(ReplyOf(c))) =>
              /\ ares'[c].token = "" /\ ares'[c].err # ""
              /\ cacheToken' = cacheToken /\ cacheExpiry' = cacheExpiry
              /\ CacheGet' = CacheGet]_vars

\* an exchange failed on an unparseable Expiry and the expired token is still cached
C15_Witness ==
    \E i \in 1..Len(exch) :
        /\ exch[i].done /\ exch[i].reply.Auth # "" /\ exch[i].reply.Expiry = <<"x">>
        /\ exch[i].reply.status = 200
        /\ ares[exch[i].by].err # ""
        /\ cacheToken # "" /\ cacheExpiry = 1 /\ now >= 1

\* --------------------------------------------------------------- C16
\* the callers that have read the cache
Passed == Cardinality({c \in Callers : apc[c] \in {"refresh", "done"}})
\* the last exchange succeeded and caller c is the first to read the cache after it
NextAfterRefresh(c) ==
    /\ Checks(c) /\ exch # <<>>
    /\ exch[Len(exch)].done /\ exch[Len(exch)].err = ""
    /\ Passed = exch[Len(exch)].before + 1

\* C16 as stated: when the cache's set fails or has no effect during a refresh,
\* the refreshing caller still receives the new token without error, and the
\* next GetAuthToken call performs a new exchange.
C16_Original ==
    [][\A c \in Callers :
          /\ (Replies(c) /\ GoodReply(ReplyOf(c)) /\ exch'[ExchOf(c)].setErr) =>
                ares'[c] = [token |-> ReplyOf(c).Auth, err |-> ""]
          /\ (NextAfterRefresh(c) /\ exch[Len(exch)].setErr) => apc'[c] = "refresh"]_vars

\* C16 as amended: when the cache's set fails or has no effect during a
\* refresh, the refreshing caller still receives the new token without error;
\* when the set has no effect (the account is not in the config), the next
\* GetAuthToken call performs a new exchange. (When only the write of the
\* config file fails, the token stays in the in-memory config and the next call
\* returns it from there while it is unexpired.)
C16_SetNonFatal ==
    [][\A c \in Callers :
          /\ (Replies(c) /\ GoodReply(ReplyOf(c)) /\ exch'[ExchOf(c)].setErr) =>
                ares'[c] = [token |-> ReplyOf(c).Auth, err |-> ""]
          /\ (NextAfterRefresh(c) /\ ~exch[Len(exch)].stored) => apc'[c] = "refresh"]_vars

\* two callers each received the token of their own exchange, the set having
\* had no effect, the first token being unexpired
C16_Witness ==
    /\ Len(exch) = 2 /\ ~CacheStores
    /\ \A i \in 1..2 : /\ exch[i].done /\ exch[i].setErr /\ exch[i].expiry > now
                        /\ ares[exch[i].by] = [token |-> exch[i].token, err |-> ""]

\* a ConfigManager on a new configuration, under any sequence of calls
InitConfig ==
    InitAuthQuiet /\ InitUpload /\ InitLibQuiet /\ InitCli({"slice", "map"}, {""}, {FALSE})

NextConfig ==
    \/ \E s \in AuthStrings, saved \in BOOLEAN :
          AddCredentials(s, saved) /\ UNCHANGED <<authVars, upVars, libVars>>
    \/ \E e \in Emails, saved \in BOOLEAN :
          RemoveCredentials(e, saved) /\ UNCHANGED <<authVars, upVars, libVars>>
    \/ \E e \in Emails, saved \in BOOLEAN :
          SetSelected(e, saved) /\ UNCHANGED <<authVars, upVars, libVars>>

SpecConfig == InitConfig /\ [][NextConfig]_vars

\* an Api of any configuration, its model set and uploads committed in any order
InitCommit ==
    InitAuthQuiet /\ InitUpload /\ InitLibQuiet /\ InitCli({"slice"}, Qualities, BOOLEAN)

NextCommit ==
    \/ \E m \in {"Pixel XL", "Pixel 2", "Pixel 5"} : SetModel(m) /\ UNCHANGED <<authVars, upVars, libVars>>
    \/ \E q \in Qualities, u \in BOOLEAN :
          CommitUpload(q, u) /\ UNCHANGED <<authVars, upVars, libVars>>

SpecCommit == InitCommit /\ [][NextCommit]_vars

\* the resolver on any input, with or without a file of that name on the host
InitResolver ==
    \* the strings given to the resolver: empty, dedup keys, strings of about the
    \* length of a key, media keys and paths
    LET ResolverInputs ==
            {<<>>, Rep("A", 26), Rep("A", 27), Rep("A", 28), [Rep("A", 27) EXCEPT ![5] = "/"],
             <<"A", "F", "1", "Q", "i", "p">>, <<"a", ".", "j", "p", "g">>,
             <<"d", "/", "b", ".", "p", "n", "g">>}
            \cup {SHA1ToDedup(d) : d \in FileDigests}
    IN
    /\ InitAuthQuiet /\ InitUpload /\ InitCliQuiet
    /\ rin \in [input : ResolverInputs, file : {"none"}, sha1 : {<<>>}]
              \cup [input : ResolverInputs \ {<<>>}, file : {"file"}, sha1 : FileDigests]
    /\ rout = NoResolution
    /\ cin = [kind |-> "none", val |-> <<>>]
    /\ cout = NoConversion
    /\ pin = <<>>
    /\ pout = NotParsed

NextResolver ==
    \/ CallResolveItemKey /\ UNCHANGED <<authVars, upVars, cliVars>>
    \/ CallResolveMediaKey /\ UNCHANGED <<authVars, upVars, cliVars>>

SpecResolver == InitResolver /\ [][NextResolver]_vars

\* the parser on any response body
InitParser ==
    \* the inputs: every short byte string, the replies of up to MaxItems items and
    \* albums, and the sample response cut short at any length or with any one
    \* byte replaced
    LET ParserInputs ==
            \* byte values: tags of each wire type, lengths, an invalid field number,
            \* continuation bytes, a letter
            LET ByteAlphabet == {0, 1, 2, 8, 10, 11, 13, 15, 18, 65, 128, 255}
            IN
            UNION {[1..n -> ByteAlphabet] : n \in 0..MaxDataLen}
            \cup {Reply(n, m, k) : n, m, k \in 0..MaxItems}
            \cup {SubSeq(SampleResponse, 1, n) : n \in 0..Len(SampleResponse)}
            \cup {[SampleResponse EXCEPT ![i] = b] : i \in 1..Len(SampleResponse), b \in ByteAlphabet}
    IN
    /\ InitAuthQuiet /\ InitUpload /\ InitCliQuiet
    /\ rin = [input |-> <<>>, file |-> "none", sha1 |-> <<>>]
    /\ rout = NoResolution
    /\ cin = [kind |-> "none", val |-> <<>>]
    /\ cout = NoConversion
    /\ pin \in ParserInputs
    /\ pout = NotParsed

NextParser == Parse /\ UNCHANGED <<authVars, upVars, cliVars>>
SpecParser == InitParser /\ [][NextParser]_vars

\* the codec on any digest and on any string
InitCodec ==
    LET Digests ==
            \* the byte values the digests of the model are made of
            LET ByteSamples == {0, 1, 127, 128, 255}
            IN
                   {<<a, b>> \o DigestFiller \o <<c, d>> : a, b, c, d \in ByteSamples}
    IN
    \* strings that are no dedup key: of every length up to MaxKeyLen, and of the
    \* length of a key with a character outside the alphabet
    LET KeyStrings ==
            {Rep(ch, n) : ch \in {"A", "_"}, n \in 0..MaxKeyLen}
            \cup {[Rep("A", 27) EXCEPT ![i] = ch] : i \in {1, 14, 27}, ch \in {"/", "+", "=", "."}}
    IN
    /\ InitAuthQuiet /\ InitUpload /\ InitCliQuiet
    /\ rin = [input |-> <<>>, file |-> "none", sha1 |-> <<>>]
    /\ rout = NoResolution
    /\ cin \in [kind : {"digest"}, val : Digests] \cup [kind : {"key"}, val : KeyStrings]
    /\ cout = NoConversion
    /\ pin = <<>>
    /\ pout = NotParsed

NextCodec ==
    \/ CodecEncode /\ UNCHANGED <<authVars, upVars, cliVars>>
    \/ CodecDecode /\ UNCHANGED <<authVars, upVars, cliVars>>

SpecCodec == InitCodec /\ [][NextCodec]_vars

\* --------------------------------------------------------------- C19
\* the number of bytes a base64 string of n characters stands for
DecodedLen(n) == (n * 6) \div 8
\* C19: for every 20-byte digest h, SHA1_to_dedup(h) is a string of 27
\* characters of [A-Za-z0-9_-] and dedup_to_SHA1 of it is h; dedup_to_SHA1
\* fails on every string that does not decode to 20 bytes.
C19_RoundTrip ==
    /\ (cin.kind = "digest" /\ cout.op = "encode") =>
          /\ Len(cin.val) = 20 /\ Len(cout.val) = 27
          /\ DedupKeyPattern(cout.val)
    /\ (cin.kind = "digest" /\ cout.op = "decode") => cout.ok /\ cout.val = cin.val
    /\ (cout.op = "decode" /\ DecodedLen(Len(cout.arg)) # 20) => ~cout.ok
    /\ (cout.op = "decode" /\ \E i \in 1..Len(cout.arg) : cout.arg[i] \in {"/", "+", "=", "."}) =>
          ~cout.ok

\* a digest with bytes 255 has come back from a key that holds both - and _
C19_Witness ==
    /\ cin.kind = "digest" /\ cout.op = "decode" /\ cout.ok
    /\ cin.val[1] = 255 /\ cin.val[20] = 1
    /\ \E i, j \in 1..Len(cout.arg) : cout.arg[i] = "-" /\ cout.arg[j] = "_"

\* ------------------------------------------------------------ resolver views
\* the input has the shape of a dedup key: 27 characters of the URL-safe alphabet
LooksLikeDedupKey(s) ==
    Len(s) = 27 /\ \A i \in 1..Len(s) : \E v \in 1..Len(URLAlphabet) : URLAlphabet[v] = s[i]

FileExists == rin.file = "file"
ReturnedKey(k) == rout.key = k /\ rout.err = Nil
NotFoundErrors ==
    {<<"media not found in Google Photos library">>, <<"file not found in Google Photos library">>}

\* one lookup was made, for this hash, and its reply was handled as the claim says
LookedUpOnce(sha1) ==
    /\ Len(rout.lookups) = 1 /\ rout.lookups[1].sha1 = sha1
    /\ (rout.lookups[1].err = Nil /\ rout.lookups[1].mediaKey = <<>>) => rout.err \in NotFoundErrors
    /\ (rout.lookups[1].err = Nil /\ rout.lookups[1].mediaKey # <<>>) =>
          ReturnedKey(rout.lookups[1].mediaKey)
    /\ rout.lookups[1].err # Nil => rout.err # Nil /\ rout.key = <<>>

HashFailed == rout.err # Nil /\ Head(rout.err) = "failed to calculate SHA1"

\* --------------------------------------------------------------- C17
\* C17 as stated: ResolveMediaKey decodes an input matching the dedup-key
\* pattern and looks it up by hash; otherwise it hashes an input naming an
\* existing file and looks it up; an empty reply yields NOT_FOUND, a non-empty
\* reply is returned; any other input is returned unchanged without a lookup.
C17_Original ==
    rout.fn = "media" =>
        IF LooksLikeDedupKey(rin.input) THEN LookedUpOnce(DedupToSHA1(rin.input).sha1)
        ELSE IF FileExists THEN LookedUpOnce(rin.sha1)
        ELSE ReturnedKey(rin.input) /\ rout.lookups = <<>>

\* C17 as amended: ResolveMediaKey rejects the empty input with an error and
\* without a lookup; a non-empty input matching the dedup-key pattern is
\* decoded and looked up by hash; otherwise an input naming an existing file is
\* hashed and looked up, or the hashing error is returned without a lookup; an
\* empty reply yields NOT_FOUND, a non-empty reply is returned, a failed lookup
\* is an error; any other non-empty input is returned unchanged without a lookup.
C17_ResolveMediaKey ==
    rout.fn = "media" =>
        IF rin.input = <<>> THEN rout.err # Nil /\ rout.key = <<>> /\ rout.lookups = <<>>
        ELSE IF LooksLikeDedupKey(rin.input) THEN LookedUpOnce(DedupToSHA1(rin.input).sha1)
        ELSE IF FileExists
        THEN \/ LookedUpOnce(rin.sha1)
             \/ HashFailed /\ rout.key = <<>> /\ rout.lookups = <<>>
        ELSE ReturnedKey(rin.input) /\ rout.lookups = <<>>

\* the 27-character key AAA...A was looked up by the hash it decodes to (twenty
\* zero bytes), the reply was empty and the call returned NOT_FOUND
C17_Witness ==
    /\ rout.fn = "media" /\ rin.input = Rep("A", 27)
    /\ Len(rout.lookups) = 1 /\ rout.lookups[1].sha1 = Rep(0, 20)
    /\ rout.lookups[1].mediaKey = <<>> /\ rout.lookups[1].err = Nil
    /\ rout.err \in NotFoundErrors

\* --------------------------------------------------------------- C18
\* C18 as stated: ResolveItemKey never issues an RPC; it returns an input
\* matching the dedup-key pattern unchanged (even when a file of that name
\* exists), otherwise the dedup key of the SHA-1 of an existing file, otherwise
\* the input unchanged.
C18_Original ==
    rout.fn = "item" =>
        /\ rout.lookups = <<>>
        /\ IF LooksLikeDedupKey(rin.input) THEN ReturnedKey(rin.input)
           ELSE IF FileExists THEN ReturnedKey(Base64Encode(URLAlphabet, rin.sha1))
           ELSE ReturnedKey(rin.input)

\* C18 as amended: ResolveItemKey never issues an RPC; it rejects the empty
\* input with an error; it returns a non-empty input matching the dedup-key
\* pattern unchanged (even when a file of that name exists), otherwise, for an
\* existing file, the dedup key of its SHA-1 or the error of the hashing,
\* otherwise the input unchanged.
C18_ResolveItemKey ==
    rout.fn = "item" =>
        /\ rout.lookups = <<>>
        /\ IF rin.input = <<>> THEN rout.err # Nil /\ rout.key = <<>>
           ELSE IF LooksLikeDedupKey(rin.input) THEN ReturnedKey(rin.input)
           ELSE IF FileExists
           THEN \/ ReturnedKey(Base64Encode(URLAlphabet, rin.sha1))
                \/ HashFailed /\ rout.key = <<>>
           ELSE ReturnedKey(rin.input)

\* a dedup key that is also the name of a file came back unchanged
C18_Witness ==
    /\ rout.fn = "item" /\ FileExists /\ LooksLikeDedupKey(rin.input)
    /\ rin.input # Base64Encode(URLAlphabet, rin.sha1)
    /\ ReturnedKey(rin.input)

\* --------------------------------------------------------------- C20
\* C20: parseLibraryResponse is total: on any byte sequence it returns either
\* a structured response (possibly empty) and no error, or an error and no
\* response; it never panics. (That it terminates shows in every input of the
\* model having a result.)
C20_ParseTotal ==
    pout.st # "none" =>
        /\ pout.st \in {"ok", "err"}
        /\ pout.st = "ok" =>
              /\ pout.err = Nil
              /\ DOMAIN pout.resp = {"StateToken", "PageToken", "MediaItems", "Albums"}
              /\ \A i \in 1..Len(pout.resp.MediaItems) :
                    pout.resp.MediaItems[i].IsVideo \in BOOLEAN
        /\ pout.st = "err" => pout.err # Nil /\ pout.resp = EmptyResponse
        /\ pin = <<>> => pout.st = "ok" /\ pout.resp = EmptyResponse

\* the sample response parsed into its two video items, its tokens and its albums
C20_Witness ==
    /\ pin = SampleResponse /\ pout.st = "ok"
    /\ Len(pout.resp.MediaItems) = 2 /\ Len(pout.resp.Albums) = 2
    /\ pout.resp.MediaItems[1].IsVideo /\ pout.resp.MediaItems[1].DownloadURL = <<117>>
    /\ pout.resp.MediaItems[1].MediaKey = <<107>>
    /\ pout.resp.StateToken = <<115>> /\ pout.resp.PageToken = <<112>>
    /\ pout.resp.Albums[2].Name = <<110>> /\ pout.resp.Albums[2].ItemCount = Val("uint", 3)

\* C21: for every well-formed library reply the parsed response holds one media
\* item per element of root.1.2 and one album per element of root.1.3, for
\* zero, one or many elements, each projected through the fixed field paths
\* (an element with .5.1 = 2 and .5.3.5 = U gives IsVideo and DownloadURL = U).
\* A reply with exactly one element decodes root.1.2 to a map, not a list,
\* and the item is dropped.
C21_Original ==
    \A n, m \in 0..MaxItems :
        pin = Reply(n, m, 0) /\ pout.st # "none" =>
            /\ pout.st = "ok"
            /\ Len(pout.resp.MediaItems) = n
            /\ Len(pout.resp.Albums) = m
            /\ \A i \in 1..Len(pout.resp.MediaItems) :
                   /\ pout.resp.MediaItems[i].MediaKey = <<107>>
                   /\ pout.resp.MediaItems[i].IsVideo
                   /\ pout.resp.MediaItems[i].DownloadURL = <<117>>
            /\ \A i \in 1..Len(pout.resp.Albums) :
                   /\ pout.resp.Albums[i].AlbumKey = <<97>>
                   /\ pout.resp.Albums[i].Name = <<110>>
                   /\ pout.resp.Albums[i].ItemCount = Val("uint", 3)

\* --------------------------------------------------------------- C22
\* the keys a credential string must hold
CredentialKeys == <<"androidId", "app", "client_sig", "Email", "Token", "lang", "service">>
\* the string is URL-encoded key/value pairs
WellFormed(s) == \A i \in 1..Len(s) : s[i].v # "%"
\* the keys of CredentialKeys that the string gives no value, in order
MissingKeys(s) ==
    SelectSeq(CredentialKeys, LAMBDA f : ~\E i \in 1..Len(s) : s[i].k = f /\ s[i].v \notin {"", "%"})

\* the string is complete and its Email is an account of the configuration
KnownEmail(s) ==
    /\ WellFormed(s) /\ MissingKeys(s) = <<>>
    /\ \E i \in 1..Len(s) : s[i].k = "Email" /\ s[i].v # "" /\ HasAccount(s[i].v)

\* C22: AddCredentials with a credential string in which a required key is
\* absent or empty, or whose Email is already an account, returns an error and
\* leaves the accounts, the selected account and the configuration file
\* unchanged; for a string of URL-encoded pairs with missing keys the error
\* lists exactly the missing keys.
C22_AddRejected ==
    [][\A s \in AuthStrings :
         (cfgRet'.op = "add" /\ cfgRet'.arg = s /\ (MissingKeys(s) # <<>> \/ KnownEmail(s))) =>
            /\ cfgRet'.err # Nil
            /\ config' = config
            /\ disk' = disk
            /\ (WellFormed(s) /\ MissingKeys(s) # <<>>) =>
                  cfgRet'.err = <<"auth string missing required fields">> \o MissingKeys(s)]_vars

\* a string without Token was rejected by a manager that holds an account
C22_Witness ==
    /\ cfgRet.op = "add"
    /\ cfgRet.err = <<"auth string missing required fields", "Token">>
    /\ Len(config.Accounts) > 0
    /\ disk = config

\* --------------------------------------------------------------- C23
\* the statuses of the events delivered for file f of batch b, in order
StatusesOf(b, f) == [i \in 1..Len(events[b].sent[f]) |-> events[b].sent[f][i].Status]
\* the statuses that may directly follow status st in the per-file state machine
FollowersOf(st, force) ==
    CASE st = StatusHashing -> IF force THEN {StatusUploading, StatusFailed}
                               ELSE {StatusChecking, StatusFailed}
      [] st = StatusChecking -> {StatusSkipped, StatusUploading, StatusFailed}
      [] st = StatusUploading -> {StatusFinalizing, StatusFailed}
      [] st = StatusFinalizing -> {StatusCompleted, StatusFailed}
      [] OTHER -> {}

\* C23: the status events of a file follow the per-file state machine: hashing
\* first; then checking if and only if ForceUpload is false; skipped only
\* directly after checking; then uploading, finalizing, completed in that
\* order; failed may take the place of any later step and ends the file; no
\* status is emitted twice for a file.
C23_StateMachine ==
    \A b \in Batches : \A f \in FileIds :
        LET st == StatusesOf(b, f) IN
        /\ st # <<>> => st[1] = StatusHashing
        /\ \A i \in 1..(Len(st) - 1) : st[i + 1] \in FollowersOf(st[i], drv[b].opts.ForceUpload)
        /\ \A i, j \in 1..Len(st) : st[i] = st[j] => i = j
        /\ (\E i \in 1..Len(st) : st[i] = StatusChecking) => ~drv[b].opts.ForceUpload

\* a file went through all five steps and the stream is closed
C23_Witness ==
    /\ \E f \in FileIds :
          StatusesOf(1, f) = <<StatusHashing, StatusChecking, StatusUploading,
                               StatusFinalizing, StatusCompleted>>
    /\ Closed(1)

\* --------------------------------------------------------------- C24
\* C24: a commit declares the device model and the quality code by the rule:
\* quality storage-saver gives code 1 and model "Pixel 2"; quality original
\* gives code 3 and the client's default model; use_quota, from the call or
\* from the client's default, gives model "Pixel 8" whatever the quality and
\* leaves the code as the quality gives it; the quality of the call, when
\* given, takes the place of the client's default; and the commit leaves the
\* client's default model as it was.
C24_ModelAndQuality ==
    [][commitReq' # commitReq =>
         LET quality == IF commitReq'.qualityStr = "" THEN api.Quality ELSE commitReq'.qualityStr
             quota == commitReq'.useQuota \/ api.UseQuota
         IN /\ quality = "storage-saver" =>
                  /\ commitReq'.Quality = 1
                  /\ ~quota => commitReq'.Model = "Pixel 2"
            /\ quality = "original" =>
                  /\ commitReq'.Quality = 3
                  /\ ~quota => commitReq'.Model = api.Model
            /\ quota => commitReq'.Model = "Pixel 8"
            /\ api' = api]_vars

\* a commit at original quality after SetModel declared the model set, and the
\* client still has it
C24_Witness ==
    /\ commitReq.qualityStr = "original" /\ ~commitReq.useQuota
    /\ commitReq.Quality = 3
    /\ commitReq.Model = "Pixel 5"
    /\ api.Model = "Pixel 5" /\ api.Quality = "storage-saver" /\ ~api.UseQuota

\* --------------------------------------------------------------- C25
\* the walker decodes the reply
Decodes(data) == decodeProtobufToJSON(data).st = "ok"
\* the reply decodes to a tree whose root.1 is a message
HasField1(data) == Decodes(data) /\ Sub(decodeProtobufToJSON(data).val, 1).t = "map"
\* the record of an item and of an album that hold their key only
BareItem == parseMediaItem(Val("map", [k \in {1} |-> Val("string", <<107>>)]))
BareAlbum == parseAlbum(Val("map", [k \in {1} |-> Val("string", <<97>>)]))
\* in the parsed reply whose element number bare holds its key only, that
\* record alone has zero values
OnlyBareAffected(bare) ==
    /\ \A i \in 1..Len(pout.resp.MediaItems) :
          LET it == pout.resp.MediaItems[i]
          IN /\ it.MediaKey = <<107>>
             /\ i = bare => it = BareItem /\ ~it.IsVideo /\ it.DownloadURL = <<>>
             /\ i # bare => it.IsVideo /\ it.DownloadURL = <<117>>
    /\ \A i \in 1..Len(pout.resp.Albums) :
          LET al == pout.resp.Albums[i]
          IN /\ al.AlbumKey = <<97>>
             /\ i = bare => al = BareAlbum /\ al.Name = <<>> /\ al.ItemCount = Val("uint", 0)
             /\ i # bare => al.Name = <<110>> /\ al.ItemCount = Val("uint", 3)

\* C25 as stated: a reply whose top-level structure is malformed (it does not
\* decode, or its root or root.1 is not a message) gives an empty
\* LibraryResponse and no error; missing fields inside a well-formed reply
\* give zero values in the affected record only.
C25_Original ==
    pout.st # "none" =>
        /\ ~HasField1(pin) => pout.st = "ok" /\ pout.resp = EmptyResponse /\ pout.err = Nil
        /\ \A n, m, k \in 0..MaxItems : pin = Reply(n, m, k) => OnlyBareAffected(k)

\* C25 as amended: a reply that decodes but whose root or root.1 is not a
\* message gives an empty LibraryResponse and no error; a reply that the walker
\* cannot decode gives an error and no response; missing fields inside a
\* well-formed reply give zero values in the affected record only.
C25_Graceful ==
    pout.st # "none" =>
        /\ (Decodes(pin) /\ ~HasField1(pin)) =>
              pout.st = "ok" /\ pout.resp = EmptyResponse /\ pout.err = Nil
        /\ ~Decodes(pin) => pout.st = "err" /\ pout.err # Nil /\ pout.resp = EmptyResponse
        /\ \A n, m, k \in 0..MaxItems : pin = Reply(n, m, k) => OnlyBareAffected(k)

\* a reply of two items and two albums, the first of each holding its key
\* only, was parsed
C25_Witness ==
    /\ pin = Reply(2, 2, 1) /\ pout.st = "ok"
    /\ Len(pout.resp.MediaItems) = 2 /\ pout.resp.MediaItems[1] = BareItem
    /\ pout.resp.MediaItems[2].IsVideo
    /\ Len(pout.resp.Albums) = 2 /\ pout.resp.Albums[1] = BareAlbum

\* ---------------------------------------------------------------- C26
\* a goroutine of batch b is blocked in a send on the event channel that no
\* one receives from any more
BlockedSenders(b) ==
    (IF drv[b].pc \in {"sendfail", "sendtotal"} THEN {<<"driver", 0>>} ELSE {})
    \cup {<<"worker", w>> : w \in {v \in WorkerIds : wk[b][v].pc = "send"}}

Stalled(b) == ~consuming[b] /\ events[b].closed = 0 /\ BlockedSenders(b) # {}

\* C26 as stated: whenever the consumer of a started batch has stopped
\* receiving before the channel was closed, the channel is never closed and
\* the upload mutex stays with the batch.
C26_Original ==
    \A b \in Batches :
        (~consuming[b] /\ drv[b].pc \notin {"idle", "lock"})
            => (events[b].closed = 0 /\ uploadMu = b)

\* C26 (amended): once the consumer has stopped receiving while a goroutine
\* of the batch is sending on the event channel, that sender stays blocked
\* for ever, the channel stays open, the upload mutex stays with the batch,
\* and every other Upload call of the client either finished before or stays
\* in front of the mutex with no event and an open channel.
C26_Stalled ==
    [][\A b \in Batches :
          /\ Stalled(b) => (Stalled(b)' /\ BlockedSenders(b) \subseteq BlockedSenders(b)')
          /\ Stalled(b)' =>
                /\ uploadMu' = b
                /\ \A c \in Batches \ {b} :
                      \/ drv'[c].pc = "done"
                      \/ /\ drv'[c].pc \in {"idle", "lock"}
                         /\ NSent(c)' = 0
                         /\ events'[c].closed = 0]_vars

C26_Witness ==
    /\ Stalled(1)
    /\ \E w \in WorkerIds : <<"worker", w>> \in BlockedSenders(1)
    /\ NSent(1) >= 1
    /\ drv[2].pc = "lock"
    /\ consuming[2]

\* ---------------------------------------------------------------- C27
\* the positions of the events of file f that carry one of the statuses S
EventsWith(b, f, S) == {i \in 1..Len(events[b].sent[f]) : events[b].sent[f][i].Status \in S}
\* the positions of the RPCs of file f that are calls of op
CallsOf(b, f, op) == {i \in 1..Len(rpcs[b][f]) : rpcs[b][f][i].op = op}
\* the workers that hold file f at the moment
Holders(b, f) == {w \in WorkerIds : wk[b][w].pc \notin {"none", "range", "exited"} /\ wk[b][w].file = f}

\* C27: in a batch that is not cancelled every file of the filtered list is
\* taken from the work channel by exactly one worker: at any time at most one
\* worker holds it, its events begin with a single hashing event and all carry
\* the worker_id of that event, it has at most one terminal event, which is
\* its last, and at most one upload and one commit; and when the batch has
\* finished every file of the list has exactly one terminal event, and no
\* other path has any event.
C27_OncePerFile ==
    \A b \in {1} : ~ctxDone[b] =>
        /\ \A f \in FileIds :
             /\ Cardinality(Holders(b, f)) <= 1
             /\ Cardinality(EventsWith(b, f, {StatusHashing})) <= 1
             /\ Cardinality(EventsWith(b, f, TerminalStatuses)) <= 1
             /\ EventsWith(b, f, TerminalStatuses) \subseteq {Len(events[b].sent[f])}
             /\ \A i \in 1..Len(events[b].sent[f]) :
                  events[b].sent[f][i].WorkerID = events[b].sent[f][1].WorkerID
             /\ Cardinality(CallsOf(b, f, "upload_stream")) <= 1
             /\ Cardinality(CallsOf(b, f, "upload_commit")) <= 1
             /\ f > drv[b].files => events[b].sent[f] = <<>> /\ rpcs[b][f] = <<>>
        /\ drv[b].pc = "done" =>
             \A f \in 1..drv[b].files : Cardinality(EventsWith(b, f, TerminalStatuses)) = 1

\* a finished batch of two files, never cancelled, whose files went to two
\* different workers, one of them uploaded and committed
C27_Witness ==
    /\ drv[1].pc = "done" /\ ~ctxDone[1] /\ drv[1].files = 2
    /\ events[1].sent[1][1].WorkerID # events[1].sent[2][1].WorkerID
    /\ EventsWith(1, 1, {StatusCompleted}) # {}
    /\ EventsWith(1, 2, TerminalStatuses) # {}
    /\ CallsOf(1, 1, "upload_commit") # {}

\* ---------------------------------------------------------------- C28
\* the status of the last event of file f, or "" when it has none
LastStatus(b, f) ==
    IF events[b].sent[f] = <<>> THEN "" ELSE events[b].sent[f][Len(events[b].sent[f])].Status

\* C28: a source file is removed only when delete_from_host is set, only
\* after checking on the way to skipped or after finalizing on the way to
\* completed, and before the terminal event of the file is emitted; a removed
\* file never has a failed event and its terminal event, once emitted, is
\* skipped or completed, so a file that failed or never started is still on
\* the disk.
C28_Removal ==
    [][\A f \in FileIds :
          /\ (onDisk[1][f] /\ ~onDisk'[1][f]) =>
                /\ drv[1].opts.DeleteFromHost
                /\ LastStatus(1, f) \in {StatusChecking, StatusFinalizing}
                /\ LastStatus(1, f)' = LastStatus(1, f)
                /\ \E w \in Holders(1, f)' :
                      /\ wk'[1][w].pc = "send"
                      /\ wk'[1][w].ev.Status =
                            (IF LastStatus(1, f) = StatusChecking THEN StatusSkipped
                             ELSE StatusCompleted)
          /\ ~onDisk'[1][f] =>
                /\ drv'[1].opts.DeleteFromHost
                /\ LastStatus(1, f)' \in {StatusChecking, StatusFinalizing,
                                          StatusSkipped, StatusCompleted}
                /\ EventsWith(1, f, {StatusFailed})' = {}
          /\ LastStatus(1, f)' \in {"", StatusFailed} => onDisk'[1][f]]_vars

\* a cancelled batch asked to delete: the first file was found in the library,
\* removed and skipped, the second never started and is still on the disk
C28_Witness ==
    /\ drv[1].pc = "done" /\ drv[1].files = 2 /\ drv[1].opts.DeleteFromHost
    /\ ctxDone[1]
    /\ LastStatus(1, 1) = StatusSkipped /\ ~onDisk[1][1]
    /\ LastStatus(1, 2) = "" /\ onDisk[1][2]

\* ---------------------------------------------------------------- C29
\* C29: the step of a worker that ends the dedup lookup without a media key
\* is the same whether the lookup failed or found nothing: nothing is removed,
\* and the worker goes on to emit uploading, bound for the upload token, or
\* failed with the stat error of the file; it emits neither skipped nor a
\* failed event carrying the lookup's error.
C29_LookupErrorIgnored ==
    [][\A w \in WorkerIds :
          (wk[1][w].pc = "find" /\ wk'[1][w] # wk[1][w]) =>
             LET f == wk[1][w].file
                 call == rpcs'[1][f][Len(rpcs'[1][f])]
                 ev == wk'[1][w].ev
                 dedupKey == SHA1ToDedupeKey(Sha1Of(1, f))
             IN /\ rpcs'[1][f] = Append(rpcs[1][f], call)
                /\ call.op = "find"
                /\ call.mediaKey = "" =>
                     /\ onDisk' = onDisk
                     /\ wk'[1][w].pc = "send"
                     /\ \/ /\ ev = UploadEvent(f, StatusUploading, "", dedupKey, Nil, w, 0)
                           /\ wk'[1][w].next = "token"
                        \/ /\ ev = UploadEvent(f, StatusFailed, "", dedupKey,
                                               Errorf("stat error", IoError), w, 0)
                           /\ wk'[1][w].next = "range"]_vars

\* a file whose lookup failed while the batch was not cancelled and that was
\* then uploaded and completed
C29_Witness ==
    /\ ~ctxDone[1]
    /\ rpcs[1][1] # <<>>
    /\ rpcs[1][1][1] = Rpc("find", RpcError, "")
    /\ StatusesOf(1, 1) = <<StatusHashing, StatusChecking, StatusUploading,
                            StatusFinalizing, StatusCompleted>>

\* ---------------------------------------------------------------- C30
\* the account emails are pairwise distinct, and Selected is empty exactly
\* when there is no account and otherwise names an existing account
Consistent(c) ==
    /\ \A i, j \in 1..Len(c.Accounts) : c.Accounts[i] = c.Accounts[j] => i = j
    /\ (c.Selected = "") = (c.Accounts = <<>>)
    /\ c.Accounts # <<>> => \E i \in 1..Len(c.Accounts) : c.Accounts[i] = c.Selected

\* C30: after every AddCredentials, RemoveCredentials and SetSelected on a
\* manager that started with no accounts the configuration is consistent, and
\* an operation that returns an error has changed neither the accounts nor
\* Selected.
C30_Original ==
    [][/\ Consistent(config')
       /\ cfgRet'.err # Nil => config' = config]_vars

====
